---- MODULE Spec2Model ----
(***************************************************************************)
(* A model of pocketchemist_nmr: the processing pipeline adapter, the      *)
(* nmrpipe command line, the tensor layout utilities, the NMRPipe header   *)
(* reader, catalog and parser, the spectral engine's mutators and the      *)
(* main window of the desktop GUI.                                         *)
(***************************************************************************)
EXTENDS Integers, Sequences, FiniteSets, TLC

VARIABLES
    \* processors/processor.py: one NMRGroupProcessor and one call of process
    processors,     \* GroupProcessor.processors, the steps in append order
    pc,             \* "build" | "run" | "returned" | "raised"
    idx,            \* position of the for loop of NMRGroupProcessor.process
    kwargs,         \* the mapping threaded through the steps
    ran,            \* the steps whose process() body was entered, in order
    \* cli/cli.py: a shell pipe of nmrpipe commands
    chain,          \* the commands run so far, each with what it did
    stdin,          \* what the next command of the pipe reads
    files,          \* the output files on disk
    \* spectra/nmrpipe/nmrpipe_spectrum.py: NMRPipeSpectrum.save
    disk,           \* path -> what the file holds (NoFile when absent)
    out_filepath,   \* the spectrum's own out_filepath
    data,           \* a tag for the spectrum's current meta and data
    saves,          \* the save calls made so far, each with its outcome
    \* spectra/nmrpipe/meta.py: a header read, written and read again
    header,         \* the header block of the file, slot -> 4-byte word
    meta,           \* load_nmrpipe_meta(header)
    rewritten,      \* the header block written from meta
    remeta,         \* load_nmrpipe_meta(rewritten)
    hpc,            \* "file" | "loaded" | "saved" | "reloaded"
    \* spectra/utils.py: a real tensor split to complex and combined again
    tensor,         \* the real tensor split_*_to_complex is given
    cplx,           \* the complex tensor it returns
    combined,       \* the real tensor combine_*_from_complex returns
    ops,            \* the layouts used so far: <<split>> or <<split, combine>>
    \* spectra/nmr_spectrum.py: NMRSpectrum.zerofill
    zdata,          \* self.data
    zbefore,        \* self.data as it was before the last call
    zcalls,         \* the zerofill calls made so far, each with its outcome
    \* spectra/nmr_spectrum.py: NMRSpectrum.convert
    axis,           \* the last axis: npts, domain_type, range_hz, obs_mhz
    there,          \* the first convert call with its outcome
    back,           \* the call converting its result back
    \* spectra/nmrpipe/nmrpipe_spectrum.py: NMRPipeSpectrum.transpose
    tmeta,          \* self.meta: the header fields transpose reads and writes
    tdata,          \* self.data: its size and whether its dtype is complex
    atload,         \* order, size, sw and label as they were after load()
    tcalls,         \* the (dim0, dim1) of the transpose calls made so far
    traised,        \* the exception the last call raised ("" when none)
    \* gui/nmrdesk.py: NMRDeskWindow
    window_spectra, \* self.spectra: the opened spectra
    plotStack,      \* self.plotStack: its plot widgets and current index
    plotSelector,   \* self.plotSelector: its entries and current index
    dialogs,        \* the file names fileNotFoundDialog was shown for
    gcalls,         \* the calls made so far, each with the exception raised
    currentMouseMode, \* self.currentMouseMode: the mode last selected
    \* spectra/nmrpipe/nmrpipe_spectrum.py: a loaded NMRPipeSpectrum
    smeta,          \* self.meta: the header fields the mutators touch
    sdata,          \* self.data: its size and whether its dtype is complex
    scalls,         \* the mutator calls made so far, each with its exception
    queried,        \* the last data_layout call and what it gave
    \* spectra/nmrpipe/definitions.py: get_nmrpipe_definitions
    globals,        \* the module globals field_locations and text_fields
    heap,           \* the dicts made so far: the catalog names each one holds
    tpc,            \* where each thread stands in its call
    cursor,         \* how many matches each thread's loop has gone through
    handed,         \* the field_locations dict each call returned
    \* spectra/nmrpipe/fileio.py: parse_nmrpipe_meta
    pmeta,          \* the header handed to parse_nmrpipe_meta
    parsed,         \* the dict it returned, or the exception it raised
    \* spectra/nmrpipe/nmrpipe_spectrum.py: phase and ft of a loaded spectrum
    fmeta,          \* self.meta: the header fields phase and ft read and write
    fdata,          \* self.data: its dtype and what has been applied to it
    flast,          \* the last phase or ft call, with its outcome
    fcount,         \* how many phase and ft calls were made
    \* spectra/nmr_spectrum.py: NMRSpectrum.apodization_exp
    apod,           \* the last axis: its npts and sw_hz
    ascale,         \* per point of the axis, the x of the exp(-pi x) applied
    alast,          \* the last apodization_exp call, with its outcome
    acount,         \* how many apodization_exp calls were made
    \* processors/fileio.py: SaveSpectra.process
    batch,          \* the spectra and out_filepaths the step is called with
    bdisk,          \* the output files: which spectrum each one holds
    bsaved,         \* the save calls made so far: spectrum and path passed
    braised,        \* the exception process() raised ("" when none)
    bpc             \* "call" before process() is called, "done" after

groupVars == <<processors, pc, idx, kwargs, ran>>
cliVars == <<chain, stdin, files>>
saveVars == <<disk, out_filepath, data, saves>>
headerVars == <<header, meta, rewritten, remeta, hpc>>
utilsVars == <<tensor, cplx, combined, ops>>
zerofillVars == <<zdata, zbefore, zcalls>>
convertVars == <<axis, there, back>>
transposeVars == <<tmeta, tdata, atload, tcalls, traised>>
guiVars == <<window_spectra, plotStack, plotSelector, dialogs, gcalls,
             currentMouseMode>>
spectrumVars == <<smeta, sdata, scalls, queried>>
defsVars == <<globals, heap, tpc, cursor, handed>>
parseVars == <<pmeta, parsed>>
ftVars == <<fmeta, fdata, flast, fcount>>
apodVars == <<apod, ascale, alast, acount>>
batchVars == <<batch, bdisk, bsaved, braised, bpc>>

vars == <<groupVars, cliVars, saveVars, headerVars, utilsVars, zerofillVars,
          convertVars, transposeVars, guiVars, spectrumVars, defsVars,
          parseVars, ftVars, apodVars, batchVars>>

\* The variables each component leaves alone
notGroup ==
    <<cliVars, saveVars, headerVars, utilsVars, zerofillVars, convertVars,
      transposeVars, guiVars, spectrumVars, defsVars, parseVars, ftVars,
      apodVars, batchVars>>
notCli ==
    <<groupVars, saveVars, headerVars, utilsVars, zerofillVars, convertVars,
      transposeVars, guiVars, spectrumVars, defsVars, parseVars, ftVars,
      apodVars, batchVars>>
notSave ==
    <<groupVars, cliVars, headerVars, utilsVars, zerofillVars, convertVars,
      transposeVars, guiVars, spectrumVars, defsVars, parseVars, ftVars,
      apodVars, batchVars>>
notHeader ==
    <<groupVars, cliVars, saveVars, utilsVars, zerofillVars, convertVars,
      transposeVars, guiVars, spectrumVars, defsVars, parseVars, ftVars,
      apodVars, batchVars>>
notUtils ==
    <<groupVars, cliVars, saveVars, headerVars, zerofillVars, convertVars,
      transposeVars, guiVars, spectrumVars, defsVars, parseVars, ftVars,
      apodVars, batchVars>>
notZerofill ==
    <<groupVars, cliVars, saveVars, headerVars, utilsVars, convertVars,
      transposeVars, guiVars, spectrumVars, defsVars, parseVars, ftVars,
      apodVars, batchVars>>
notConvert ==
    <<groupVars, cliVars, saveVars, headerVars, utilsVars, zerofillVars,
      transposeVars, guiVars, spectrumVars, defsVars, parseVars, ftVars,
      apodVars, batchVars>>
notTranspose ==
    <<groupVars, cliVars, saveVars, headerVars, utilsVars, zerofillVars,
      convertVars, guiVars, spectrumVars, defsVars, parseVars, ftVars,
      apodVars, batchVars>>
notGui ==
    <<groupVars, cliVars, saveVars, headerVars, utilsVars, zerofillVars,
      convertVars, transposeVars, spectrumVars, defsVars, parseVars, ftVars,
      apodVars, batchVars>>
notSpectrum ==
    <<groupVars, cliVars, saveVars, headerVars, utilsVars, zerofillVars,
      convertVars, transposeVars, guiVars, defsVars, parseVars, ftVars,
      apodVars, batchVars>>
notDefs ==
    <<groupVars, cliVars, saveVars, headerVars, utilsVars, zerofillVars,
      convertVars, transposeVars, guiVars, spectrumVars, parseVars, ftVars,
      apodVars, batchVars>>
notParse ==
    <<groupVars, cliVars, saveVars, headerVars, utilsVars, zerofillVars,
      convertVars, transposeVars, guiVars, spectrumVars, defsVars, ftVars,
      apodVars, batchVars>>
notFt ==
    <<groupVars, cliVars, saveVars, headerVars, utilsVars, zerofillVars,
      convertVars, transposeVars, guiVars, spectrumVars, defsVars, parseVars,
      apodVars, batchVars>>
notApod ==
    <<groupVars, cliVars, saveVars, headerVars, utilsVars, zerofillVars,
      convertVars, transposeVars, guiVars, spectrumVars, defsVars, parseVars,
      ftVars, batchVars>>
notBatch ==
    <<groupVars, cliVars, saveVars, headerVars, utilsVars, zerofillVars,
      convertVars, transposeVars, guiVars, spectrumVars, defsVars, parseVars,
      ftVars, apodVars>>

-----------------------------------------------------------------------------
(* Bounds *)

MaxSteps == 3
MaxCmds == 3
MaxSaves == 3
HeaderSlots == 6
MaxRank == 3
MaxAxis == 3
MaxHalf == 2
MaxZfRank == 2
MaxPad == 2
MaxFills == 1
MaxNpts == 4
MaxHz == 2
MaxObs == 2
MaxTransposes == 2
MaxGuiCalls == 4
MaxDims == 3
MaxCalls == 2
MaxThreads == 3
MaxFtCalls == 2
MaxLb == 2
MaxApods == 2
MaxBatch == 2

-----------------------------------------------------------------------------
(* processors/fileio.py and processors/processor.py: the pipeline steps *)

\* The in_filepaths a LoadSpectra step is built with
InFilepaths == <<"a.fid">>

\* FTSpectra's mode values the command line can produce
FTModes == {"auto", "real", "inv"}

LoadStep == [cls |-> "LoadSpectra", mode |-> "-"]
SaveStep == [cls |-> "SaveSpectra", mode |-> "-"]
FTStep(m) == [cls |-> "FTSpectra", mode |-> m]

Steps == {LoadStep, SaveStep} \cup {FTStep(m) : m \in FTModes}

\* A Python keyword mapping, or None.  none: the value is None;
\* has: the mapping holds the key 'spectra'; spectra: its value.
NoneValue == [none |-> TRUE, has |-> FALSE, spectra |-> <<>>]
EmptyKwargs == [none |-> FALSE, has |-> FALSE, spectra |-> <<>>]
WithSpectra(s) == [none |-> FALSE, has |-> TRUE, spectra |-> s]

\* NMRPipeSpectrum(in_filepath=p): a freshly loaded spectrum
NewSpectrum(p) == [path |-> p, nft |-> 0]

\* The outcome of one step: the value returned, whether the body was entered,
\* the exception raised ("" when none), and what it did to spectrum files
\* ("load", "transform", "write", or "" for nothing)
Outcome(ret, entered, exc, io) ==
    [ret |-> ret, entered |-> entered, exc |-> exc, io |-> io]

\* LoadSpectra.process(spectra=None, in_filepaths=None, **kwargs)
LoadSpectra_process(kw) ==
    LET spectra == IF kw.has THEN kw.spectra ELSE <<>>
        loaded  == IF Len(spectra) = 0
                   THEN [i \in 1..Len(InFilepaths) |-> NewSpectrum(InFilepaths[i])]
                   ELSE spectra
    IN  Outcome(WithSpectra(loaded), TRUE, "",
                IF Len(spectra) = 0 /\ Len(InFilepaths) > 0 THEN "load" ELSE "")

\* FTSpectra.process(spectra, mode=None, **kwargs)
FTSpectra_process(step, kw) ==
    IF ~kw.has
    THEN Outcome(NoneValue, FALSE, "TypeError", "")  \* no 'spectra' argument
    ELSE IF Len(kw.spectra) > 0 /\ step.mode # "auto"
    THEN Outcome(NoneValue, TRUE, "NotImplementedError", "")
    ELSE Outcome(WithSpectra([i \in 1..Len(kw.spectra) |->
                     [kw.spectra[i] EXCEPT !.nft = @ + 1]]), TRUE, "",
                 IF Len(kw.spectra) > 0 THEN "transform" ELSE "")

\* SaveSpectra.process(spectra, out_filepaths=None, ...): the loop saves every
\* spectrum and the method ends without a return statement
SaveSpectra_process(kw) ==
    IF ~kw.has
    THEN Outcome(NoneValue, FALSE, "TypeError", "")  \* no 'spectra' argument
    ELSE Outcome(NoneValue, TRUE, "",
                 IF Len(kw.spectra) > 0 THEN "write" ELSE "")

\* processor.process(**kwargs) as NMRGroupProcessor.process calls it
StepProcess(step, kw) ==
    IF kw.none
    THEN Outcome(NoneValue, FALSE, "TypeError", "")  \* ** of None
    ELSE CASE step.cls = "LoadSpectra" -> LoadSpectra_process(kw)
           [] step.cls = "FTSpectra"   -> FTSpectra_process(step, kw)
           [] step.cls = "SaveSpectra" -> SaveSpectra_process(kw)

-----------------------------------------------------------------------------
(* cli/cli.py: the nmrpipe command line *)

\* What travels on a pipe between two commands: nothing, a pickled group of
\* steps, or printed text
NoData == [kind |-> "none", group |-> <<>>]
Pickled(g) == [kind |-> "pickle", group |-> g]
Text == [kind |-> "text", group |-> <<>>]

\* The path given to -out
OutPath == "out.ft"

\* The subcommands registered on the nmrpipe_fn group
Registered == {"SOL", "FT", "TP"}

\* The subcommand names a user may type after -fn
Leaves == {"SOL", "FT", "TP", "EM", "EXT", "PS", "SP", "ZF"}

\* group.process() run to its end inside one command: the exception that
\* stopped it ("" when none), the value returned, and the file work done
RECURSIVE RunFrom(_, _, _, _)
RunFrom(ps, i, kw, io) ==
    IF i > Len(ps)
    THEN [exc |-> "", ret |-> kw, io |-> io]
    ELSE LET o == StepProcess(ps[i], kw)
             io2 == IF o.io = "" THEN io ELSE Append(io, o.io)
         IN  IF o.exc # ""
             THEN [exc |-> o.exc, ret |-> NoneValue, io |-> io2]
             ELSE RunFrom(ps, i + 1, o.ret, io2)

GroupProcess(ps) == RunFrom(ps, 1, EmptyKwargs, <<>>)

\* What a command body leaves behind: the text it wrote to the captured
\* stdout, the exception it raised, its file work
Body(buf, exc, io) == [buf |-> buf, exc |-> exc, io |-> io]

\* read_stdin(): pickle.load on what the pipe holds
read_stdin(in) == IF in.kind = "pickle" THEN "" ELSE "UnpicklingError"

\* nmrpipe_in, were it to run its group before passing it on
nmrpipe_in_eager(show_header) ==
    LET group == <<LoadStep>>
        r == GroupProcess(group)
    IN  IF show_header THEN Body(Text, r.exc, r.io)
        ELSE Body(Pickled(group), r.exc, r.io)

\* The body of nmrpipe_in
nmrpipe_in(show_header) ==
    LET group == <<LoadStep>>
    IN  IF show_header
        THEN LET r == GroupProcess(group)
             IN  IF r.exc # "" THEN Body(NoData, r.exc, r.io)
                 ELSE IF ~r.ret.has THEN Body(NoData, "AssertionError", r.io)
                 ELSE Body(Text, "", r.io)
        ELSE Body(Pickled(group), "", <<>>)

\* The body of nmrpipe_fn_sol
nmrpipe_fn_sol(in) ==
    IF read_stdin(in) # "" THEN Body(NoData, read_stdin(in), <<>>)
    ELSE Body(Pickled(in.group), "", <<>>)

\* The body of nmrpipe_fn_ft
nmrpipe_fn_ft(mode, in) ==
    IF read_stdin(in) # "" THEN Body(NoData, read_stdin(in), <<>>)
    ELSE Body(Pickled(Append(in.group, FTStep(mode))), "", <<>>)

\* The body of nmrpipe_fn_tp: its import of Transpose2D finds no such class
nmrpipe_fn_tp(in) == Body(NoData, "ImportError", <<>>)

\* The _nmrpipe_out wrapper around a command body
nmrpipe_out(body, out) ==
    IF body.exc # ""
    THEN [exit |-> 1, emitted |-> NoData, io |-> body.io, executed |-> <<>>]
    ELSE IF out
    THEN IF body.buf.kind # "pickle"
         THEN [exit |-> 1, emitted |-> NoData, io |-> body.io,
               executed |-> <<>>]
         ELSE LET group == Append(body.buf.group, SaveStep)
                  r == GroupProcess(group)
              IN  [exit |-> IF r.exc = "" THEN 0 ELSE 1, emitted |-> NoData,
                   io |-> body.io \o r.io, executed |-> group]
    ELSE [exit |-> 0, emitted |-> body.buf, io |-> body.io, executed |-> <<>>]

\* nmrpipe -fn <leaf>: click looks the subcommand up before any body runs
nmrpipe_fn(leaf, mode, out, in) ==
    IF leaf \notin Registered
    THEN [exit |-> 2, emitted |-> NoData, io |-> <<>>, executed |-> <<>>]
    ELSE CASE leaf = "SOL" -> nmrpipe_out(nmrpipe_fn_sol(in), out)
           [] leaf = "FT"  -> nmrpipe_out(nmrpipe_fn_ft(mode, in), out)
           [] leaf = "TP"  -> nmrpipe_out(nmrpipe_fn_tp(in), out)

\* One finished command of the pipe
Done(name, leaf, mode, hdr, out, in, r) ==
    [name |-> name, leaf |-> leaf, mode |-> mode, hdr |-> hdr, out |-> out,
     read |-> in,
     exit |-> r.exit, emitted |-> r.emitted, io |-> r.io,
     executed |-> r.executed]

Wrote(r) == \E k \in 1..Len(r.io) : r.io[k] = "write"

CliStart ==
    /\ chain = <<>>
    /\ stdin = NoData
    /\ files = {}

\* nmrpipe -in a.fid [--show-header] [-out out.ft], the head of a pipe
CmdIn(show_header, out) ==
    /\ Len(chain) = 0
    /\ LET r == nmrpipe_out(nmrpipe_in(show_header), out)
       IN  /\ chain' = Append(chain, Done("-in", "-", "-", show_header, out, stdin, r))
           /\ stdin' = r.emitted
           /\ files' = IF Wrote(r) THEN files \cup {OutPath} ELSE files
    /\ UNCHANGED notCli

\* nmrpipe -fn <leaf> [mode] [-out out.ft], reading the previous command
CmdFn(leaf, mode, out) ==
    /\ Len(chain) < MaxCmds
    /\ LET r == nmrpipe_fn(leaf, mode, out, stdin)
       IN  /\ chain' = Append(chain, Done("-fn", leaf, mode, FALSE, out, stdin, r))
           /\ stdin' = r.emitted
           /\ files' = IF Wrote(r) THEN files \cup {OutPath} ELSE files
    /\ UNCHANGED notCli

CliNext ==
    \/ \E h \in BOOLEAN, o \in BOOLEAN : CmdIn(h, o)
    \/ \E leaf \in Leaves, o \in BOOLEAN :
          \E m \in (IF leaf = "FT" THEN FTModes ELSE {"-"}) : CmdFn(leaf, m, o)

-----------------------------------------------------------------------------
(* processors/processor.py: NMRGroupProcessor *)

GroupStart ==
    /\ processors = <<>>
    /\ pc = "build"
    /\ idx = 0
    /\ kwargs = EmptyKwargs
    /\ ran = <<>>

\* group += step
GroupAppend(step) ==
    /\ pc = "build"
    /\ Len(processors) < MaxSteps
    /\ processors' = Append(processors, step)
    /\ UNCHANGED <<pc, idx, kwargs, ran>>
    /\ UNCHANGED notGroup

\* group.process(): entry of NMRGroupProcessor.process with no arguments
GroupProcessCall ==
    /\ pc = "build"
    /\ pc' = "run"
    /\ idx' = 1
    /\ kwargs' = EmptyKwargs
    /\ UNCHANGED <<processors, ran>>
    /\ UNCHANGED notGroup

\* One iteration of `for processor in self.processors:
\*                       kwargs = processor.process(**kwargs)`
GroupProcessStep ==
    /\ pc = "run"
    /\ idx <= Len(processors)
    /\ LET o == StepProcess(processors[idx], kwargs)
       IN  /\ ran' = IF o.entered THEN Append(ran, processors[idx]) ELSE ran
           /\ IF o.exc # ""
              THEN /\ pc' = "raised"
                   /\ UNCHANGED <<idx, kwargs>>
              ELSE /\ kwargs' = o.ret
                   /\ idx' = idx + 1
                   /\ pc' = pc
    /\ UNCHANGED processors
    /\ UNCHANGED notGroup

\* `return kwargs` once the loop is exhausted
GroupProcessReturn ==
    /\ pc = "run"
    /\ idx > Len(processors)
    /\ pc' = "returned"
    /\ UNCHANGED <<processors, idx, kwargs, ran>>
    /\ UNCHANGED notGroup

GroupNext ==
    \/ \E step \in Steps : GroupAppend(step)
    \/ GroupProcessCall
    \/ GroupProcessStep
    \/ GroupProcessReturn

-----------------------------------------------------------------------------
(* spectra/nmrpipe/nmrpipe_spectrum.py: NMRPipeSpectrum.save *)

Paths == {"p.ft", "q.ft"}
NoPath == "None"
NoFile == 0
DataTags == {1, 2}

\* save_nmrpipe_tensor(filename, meta, tensor, overwrite): refuses a path that
\* holds a file unless overwrite is set, else writes header and payload
save_nmrpipe_tensor(d, filename, tag, overwrite) ==
    IF d[filename] # NoFile /\ ~overwrite
    THEN [raised |-> "FileExistsError", disk |-> d]
    ELSE [raised |-> "", disk |-> [d EXCEPT ![filename] = tag]]

\* NMRPipeSpectrum.save, were it to drop the caller's overwrite policy
NMRPipeSpectrum_save_forced(d, self_out, tag, path, overwrite) ==
    save_nmrpipe_tensor(d, IF path # NoPath THEN path ELSE self_out, tag, TRUE)

\* NMRPipeSpectrum.save(out_filepath=path, overwrite=overwrite)
NMRPipeSpectrum_save(d, self_out, tag, path, overwrite) ==
    save_nmrpipe_tensor(d, IF path # NoPath THEN path ELSE self_out, tag,
                        overwrite)

SaveStart ==
    /\ disk = [f \in Paths |-> NoFile]
    /\ out_filepath = "p.ft"
    /\ data = 1
    /\ saves = <<>>

\* NMRPipeSpectrum(in_filepath, out_filepath=f): the spectrum's default
\* output path, chosen before any save
Construct(f) ==
    /\ saves = <<>>
    /\ out_filepath # f
    /\ out_filepath' = f
    /\ UNCHANGED <<disk, data, saves>>
    /\ UNCHANGED notSave

\* spectrum.save(out_filepath=path, overwrite=overwrite)
Save(path, overwrite) ==
    /\ Len(saves) < MaxSaves
    /\ LET r == NMRPipeSpectrum_save(disk, out_filepath, data, path, overwrite)
           f == IF path # NoPath THEN path ELSE out_filepath
       IN  /\ disk' = r.disk
           /\ saves' = Append(saves, [path |-> f, overwrite |-> overwrite,
                                      raised |-> r.raised, data |-> data,
                                      before |-> disk[f], after |-> r.disk[f]])
    /\ UNCHANGED <<out_filepath, data>>
    /\ UNCHANGED notSave

\* Any in-place processing of the spectrum between two saves
Modify(tag) ==
    /\ tag # data
    /\ data' = tag
    /\ UNCHANGED <<disk, out_filepath, saves>>
    /\ UNCHANGED notSave

SaveNext ==
    \/ \E f \in Paths : Construct(f)
    \/ \E path \in Paths \cup {NoPath}, ov \in BOOLEAN : Save(path, ov)
    \/ \E tag \in DataTags : Modify(tag)

-----------------------------------------------------------------------------
(* spectra/nmrpipe/meta.py and definitions.py: the header reader *)

\* The 4-byte words a header slot can hold: four null bytes, four ASCII
\* letters, four bytes that are no UTF-8 text, and the bytes of a float NaN
\* (which are no UTF-8 text either)
Null == 0
Ascii == 1
Binary == 2
NaN == 3
Words == {Null, Ascii, Binary, NaN}

Slots == 0..(HeaderSlots - 1)

\* get_nmrpipe_definitions(), scaled down: field_locations keeps the shape of
\* the catalog (two names on one slot, a text field spanning two slots, slots
\* without a name)
FieldNames == {"FDMAGIC", "FDDIMORDER", "FDDIMORDER1", "FDF2LABEL", "FDSIZE"}
field_locations ==
    [k \in FieldNames |->
        CASE k = "FDMAGIC" -> 0
          [] k = "FDDIMORDER" -> 1
          [] k = "FDDIMORDER1" -> 1
          [] k = "FDF2LABEL" -> 2
          [] k = "FDSIZE" -> 4]

\* The order the catalog lists the names in
FieldOrder == <<"FDMAGIC", "FDDIMORDER", "FDDIMORDER1", "FDF2LABEL", "FDSIZE">>

\* text_fields: label -> size, here in slots (SIZE_NDLABEL names no field)
TextLabels == {"SIZE_NDLABEL", "SIZE_F2LABEL"}
text_fields == [l \in TextLabels |-> 2]
TextKey(l) == IF l = "SIZE_F2LABEL" THEN "FDF2LABEL" ELSE "FDNDLABEL"
IsTextKey(k) == \E l \in TextLabels : TextKey(l) = k
TextSize(k) == text_fields[CHOOSE l \in TextLabels : TextKey(l) = k]

\* {v: k for k, v in field_locations.items()}: the last name listed for a
\* slot is the one kept
fields_by_location(i) ==
    LET at == {n \in 1..Len(FieldOrder) : field_locations[FieldOrder[n]] = i}
    IN  IF at = {} THEN "-"
        ELSE FieldOrder[CHOOSE n \in at : \A o \in at : o <= n]

\* Values of the metadata mapping
Absent == [t |-> "absent", w |-> Null, s |-> <<>>]
Float(w) == [t |-> "float", w |-> w, s |-> <<>>]
Str(s) == [t |-> "str", w |-> Null, s |-> s]

\* Python's == on two values of the mapping
PyEq(a, b) ==
    \/ a.t = "float" /\ b.t = "float" /\ a.w = b.w /\ a.w # NaN
    \/ a.t = "str" /\ b.t = "str" /\ a.s = b.s

\* bytes.decode(): fails on a word that is no UTF-8 text
Decodable(ws) == \A i \in 1..Len(ws) : ws[i] \in {Null, Ascii}

\* str.strip('\x00'): null bytes removed from both ends
RECURSIVE LStrip(_)
LStrip(ws) == IF ws # <<>> /\ Head(ws) = Null THEN LStrip(Tail(ws)) ELSE ws
RECURSIVE RStrip(_)
RStrip(ws) ==
    IF ws # <<>> /\ ws[Len(ws)] = Null
    THEN RStrip(SubSeq(ws, 1, Len(ws) - 1)) ELSE ws
Strip(ws) == RStrip(LStrip(ws))

\* struct.unpack_from(f'{size}s', buff, offset): the words of the field, or
\* struct.error when the buffer ends before the field does
FieldFits(h, loc, size) == loc + size - 1 \in DOMAIN h
FieldWords(h, loc, size) == [n \in 1..size |-> h[loc + n - 1]]

\* load_nmrpipe_meta, were the floats counted from one instead of zero
load_nmrpipe_meta_shifted(h) ==
    [k \in FieldNames |->
        LET loc == field_locations[k]
            asFloat == IF loc - 1 \in DOMAIN h /\ fields_by_location(loc) = k
                       THEN Float(h[loc - 1]) ELSE Absent
        IN  IF IsTextKey(k) /\ FieldFits(h, loc, TextSize(k))
                            /\ Decodable(FieldWords(h, loc, TextSize(k)))
            THEN Str(Strip(FieldWords(h, loc, TextSize(k))))
            ELSE asFloat]

\* load_nmrpipe_meta: every named slot as a float, then the text fields
\* decoded over them; a field that does not decode keeps its float
load_nmrpipe_meta(h) ==
    [k \in FieldNames |->
        LET loc == field_locations[k]
            asFloat == IF loc \in DOMAIN h /\ fields_by_location(loc) = k
                       THEN Float(h[loc]) ELSE Absent
        IN  IF IsTextKey(k) /\ FieldFits(h, loc, TextSize(k))
                            /\ Decodable(FieldWords(h, loc, TextSize(k)))
            THEN Str(Strip(FieldWords(h, loc, TextSize(k))))
            ELSE asFloat]

\* save_nmrpipe_meta: the floats laid out at their catalog slots, zero where
\* unset, then each text field's bytes written over its range, null-padded
save_nmrpipe_meta(m) ==
    [i \in Slots |->
        LET floats == {k \in FieldNames : m[k].t = "float"
                                          /\ field_locations[k] = i}
            texts == {k \in FieldNames :
                        /\ m[k].t = "str"
                        /\ IsTextKey(k)
                        /\ i >= field_locations[k]
                        /\ i < field_locations[k] + TextSize(k)}
        IN  IF texts # {}
            THEN LET k == CHOOSE k \in texts : TRUE
                     n == i - field_locations[k] + 1
                 IN  IF n <= Len(m[k].s) THEN m[k].s[n] ELSE Null
            ELSE IF floats # {}
            THEN m[CHOOSE k \in floats : TRUE].w
            ELSE Null]

HeaderStart ==
    /\ header = [i \in Slots |-> Null]
    /\ meta = [k \in FieldNames |-> Absent]
    /\ rewritten = [i \in Slots |-> Null]
    /\ remeta = [k \in FieldNames |-> Absent]
    /\ hpc = "file"

\* Any header block a file may hold
HeaderAny ==
    /\ header \in [Slots -> Words]
    /\ meta = [k \in FieldNames |-> Absent]
    /\ rewritten = [i \in Slots |-> Null]
    /\ remeta = [k \in FieldNames |-> Absent]
    /\ hpc = "file"

\* m = load_nmrpipe_meta(file)
HeaderLoad ==
    /\ hpc = "file"
    /\ meta' = load_nmrpipe_meta(header)
    /\ hpc' = "loaded"
    /\ UNCHANGED <<header, rewritten, remeta>>
    /\ UNCHANGED notHeader

\* save_nmrpipe_meta(m) into a new file
HeaderSave ==
    /\ hpc = "loaded"
    /\ rewritten' = save_nmrpipe_meta(meta)
    /\ hpc' = "saved"
    /\ UNCHANGED <<header, meta, remeta>>
    /\ UNCHANGED notHeader

\* load_nmrpipe_meta(new file)
HeaderReload ==
    /\ hpc = "saved"
    /\ remeta' = load_nmrpipe_meta(rewritten)
    /\ hpc' = "reloaded"
    /\ UNCHANGED <<header, meta, rewritten>>
    /\ UNCHANGED notHeader

HeaderNext == HeaderLoad \/ HeaderSave \/ HeaderReload

-----------------------------------------------------------------------------
(* spectra/utils.py: block and single interleave of real and imaginary parts *)

\* A tensor: its size and the element at every index (indices from 1)
Longest(size) == IF size = <<>> THEN 0
                 ELSE CHOOSE n \in {size[a] : a \in DOMAIN size} :
                        \A a \in DOMAIN size : size[a] <= n
Indices(size) == {ix \in [1..Len(size) -> 1..Longest(size)] :
                    \A a \in 1..Len(size) : ix[a] <= size[a]}
Tensor(size, at) == [size |-> size, at |-> at]
EmptyTensor == Tensor(<<>>, <<>>)

\* The row-major position of an index, from 0
RECURSIVE Linear(_, _, _)
Linear(size, ix, a) ==
    IF a = 0 THEN 0 ELSE Linear(size, ix, a - 1) * size[a] + (ix[a] - 1)

\* torch.arange(n).reshape(size)
Arange(size) ==
    Tensor(size, [ix \in Indices(size) |-> Linear(size, ix, Len(size))])

\* A complex number
Complex(re, im) == [re |-> re, im |-> im]

\* The size with axis a set to n
Resize(size, a, n) == [size EXCEPT ![a] = n]

\* split_block_to_complex: torch.split into halves along the last axis, the
\* first half the real part, the second the imaginary part
split_block_to_complex(t) ==
    LET d == Len(t.size)
        half == t.size[d] \div 2
        size == Resize(t.size, d, half)
    IN  Tensor(size, [ix \in Indices(size) |->
            Complex(t.at[ix], t.at[[ix EXCEPT ![d] = @ + half]])])

\* split_single_to_complex: tensor[..., ::2] real, tensor[..., 1::2] imaginary
split_single_to_complex(t) ==
    LET d == Len(t.size)
        size == Resize(t.size, d, t.size[d] \div 2)
    IN  Tensor(size, [ix \in Indices(size) |->
            Complex(t.at[[ix EXCEPT ![d] = 2 * @ - 1]],
                    t.at[[ix EXCEPT ![d] = 2 * @]])])

\* torch.hstack((a, b)): concatenation along the first axis for tensors of
\* one axis, along the second axis for all others
hstack_axis(d) == IF d = 1 THEN 1 ELSE 2

\* combine_block_from_complex: torch.hstack((real, imag))
combine_block_from_complex(c) ==
    LET a == hstack_axis(Len(c.size))
        size == Resize(c.size, a, 2 * c.size[a])
    IN  Tensor(size, [ix \in Indices(size) |->
            IF ix[a] <= c.size[a]
            THEN c.at[ix].re
            ELSE c.at[[ix EXCEPT ![a] = @ - c.size[a]]].im])

\* combine_single_from_complex: torch.stack((real, imag), dim).view(size)
combine_single_from_complex(c) ==
    LET d == Len(c.size)
        size == Resize(c.size, d, 2 * c.size[d])
    IN  Tensor(size, [ix \in Indices(size) |->
            IF ix[d] % 2 = 1
            THEN c.at[[ix EXCEPT ![d] = (@ + 1) \div 2]].re
            ELSE c.at[[ix EXCEPT ![d] = @ \div 2]].im])

\* The sizes of real tensors with an even last axis
EvenSizes ==
    UNION {{size \in [1..d -> 1..(2 * MaxHalf)] :
              /\ \A a \in 1..(d - 1) : size[a] <= MaxAxis
              /\ size[d] % 2 = 0} : d \in 1..MaxRank}

UtilsStart ==
    /\ tensor = EmptyTensor
    /\ cplx = EmptyTensor
    /\ combined = EmptyTensor
    /\ ops = <<>>

UtilsAny ==
    /\ \E size \in EvenSizes : tensor = Arange(size)
    /\ cplx = EmptyTensor
    /\ combined = EmptyTensor
    /\ ops = <<>>

SplitBlock ==
    /\ ops = <<>>
    /\ cplx' = split_block_to_complex(tensor)
    /\ ops' = <<"block">>
    /\ UNCHANGED <<tensor, combined>>
    /\ UNCHANGED notUtils

SplitSingle ==
    /\ ops = <<>>
    /\ cplx' = split_single_to_complex(tensor)
    /\ ops' = <<"single">>
    /\ UNCHANGED <<tensor, combined>>
    /\ UNCHANGED notUtils

CombineBlock ==
    /\ Len(ops) = 1
    /\ combined' = combine_block_from_complex(cplx)
    /\ ops' = Append(ops, "block")
    /\ UNCHANGED <<tensor, cplx>>
    /\ UNCHANGED notUtils

CombineSingle ==
    /\ Len(ops) = 1
    /\ combined' = combine_single_from_complex(cplx)
    /\ ops' = Append(ops, "single")
    /\ UNCHANGED <<tensor, cplx>>
    /\ UNCHANGED notUtils

UtilsNext == SplitBlock \/ SplitSingle \/ CombineBlock \/ CombineSingle

-----------------------------------------------------------------------------
(* spectra/nmr_spectrum.py: NMRSpectrum.zerofill *)

\* An optional argument: None, or a value
None == <<>>
Some(v) == <<v>>
Optional(S) == {None} \cup {Some(v) : v \in S}

\* ceil(log2(n)) for n >= 1
RECURSIVE CeilLog2(_)
CeilLog2(n) == IF n <= 1 THEN 0 ELSE 1 + CeilLog2((n + 1) \div 2)

\* torch.nn.functional.pad(t, pad=(left, right), mode='constant', value=0.0)
pad_tensor(t, left, right) ==
    LET d == Len(t.size)
        size == Resize(t.size, d, left + t.size[d] + right)
    IN  Tensor(size, [ix \in Indices(size) |->
            IF ix[d] > left /\ ix[d] <= left + t.size[d]
            THEN t.at[[ix EXCEPT ![d] = @ - left]]
            ELSE 0])

\* The final size zerofill works out from its arguments
zerofill_size(npts, double, double_base2, size, pad) ==
    IF size # None THEN size[1]
    ELSE IF pad # None THEN npts + pad[1]
    ELSE IF double_base2 # None
    THEN 2 ^ (CeilLog2(npts) + double_base2[1] - 1)
    ELSE npts * 2 * double

\* zerofill, were it to pad on the left
zerofill_left(t, double, double_base2, size, pad) ==
    LET npts == t.size[Len(t.size)]
        delta == zerofill_size(npts, double, double_base2, size, pad) - npts
    IN  IF delta > 0
        THEN [raised |-> "", data |-> pad_tensor(t, delta, 0)]
        ELSE [raised |-> "AssertionError", data |-> t]

\* NMRSpectrum.zerofill(double, double_base2, size, pad)
zerofill(t, double, double_base2, size, pad) ==
    LET npts == t.size[Len(t.size)]
        delta == zerofill_size(npts, double, double_base2, size, pad) - npts
    IN  IF delta > 0
        THEN [raised |-> "", data |-> pad_tensor(t, 0, delta)]
        ELSE [raised |-> "AssertionError", data |-> t]

\* torch.arange(1, n + 1).reshape(size): no element is zero
Arange1(size) ==
    Tensor(size, [ix \in Indices(size) |-> 1 + Linear(size, ix, Len(size))])

ZerofillStart ==
    /\ zdata = EmptyTensor
    /\ zbefore = EmptyTensor
    /\ zcalls = <<>>

\* A loaded spectrum's data
ZerofillAny ==
    /\ \E d \in 1..MaxZfRank : \E size \in [1..d -> 1..MaxAxis] :
          zdata = Arange1(size)
    /\ zbefore = EmptyTensor
    /\ zcalls = <<>>

Zerofill(double, double_base2, size, pad) ==
    /\ Len(zcalls) < MaxFills
    /\ LET r == zerofill(zdata, double, double_base2, size, pad)
       IN  /\ zdata' = r.data
           /\ zbefore' = zdata
           /\ zcalls' = Append(zcalls, [double |-> double,
                                        double_base2 |-> double_base2,
                                        size |-> size, pad |-> pad,
                                        raised |-> r.raised])
    /\ UNCHANGED notZerofill

ZerofillNext ==
    \E double \in 1..2, double_base2 \in Optional(1..2),
       size \in Optional(1..(MaxAxis + MaxPad)),
       pad \in Optional(0..MaxPad) :
        Zerofill(double, double_base2, size, pad)

-----------------------------------------------------------------------------
(* spectra/nmr_spectrum.py: NMRSpectrum.convert *)

\* Python floats, kept exact: a fraction <<numerator, denominator>> with a
\* positive denominator, in lowest terms
RECURSIVE Gcd(_, _)
Gcd(a, b) == IF b = 0 THEN a ELSE Gcd(b, a % b)
Abs(n) == IF n < 0 THEN -n ELSE n
Frac(n, d) ==
    LET g == Gcd(Abs(n), Abs(d))
        sgn == IF d < 0 THEN -1 ELSE 1
    IN  <<(sgn * n) \div g, (sgn * d) \div g>>
Num(n) == <<n, 1>>
FSub(a, b) == Frac(a[1] * b[2] - b[1] * a[2], a[2] * b[2])
FAdd(a, b) == Frac(a[1] * b[2] + b[1] * a[2], a[2] * b[2])
FMul(a, b) == Frac(a[1] * b[1], a[2] * b[2])
FDiv(a, b) == Frac(a[1] * b[2], a[2] * b[1])
FAbs(a) == <<Abs(a[1]), a[2]>>
FLess(a, b) == a[1] * b[2] < b[1] * a[2]

\* round(x): to the nearest integer, a tie to the even one
Round(a) ==
    LET fl == a[1] \div a[2]
        rem == a[1] - fl * a[2]
    IN  IF 2 * rem < a[2] THEN fl
        ELSE IF 2 * rem > a[2] THEN fl + 1
        ELSE IF fl % 2 = 0 THEN fl ELSE fl + 1

Units == {"POINTS", "SEC", "HZ", "PPM"}

\* range_hz[-1] and range_ppm[-1] of an axis: (left, right), left the greater
range_hz(ax) == <<Num(ax.left_hz), Num(ax.right_hz)>>
range_ppm(ax) ==
    <<Frac(ax.left_hz, ax.obs_mhz), Frac(ax.right_hz, ax.obs_mhz)>>

\* The outcome of a call: the exception raised ("" when none) and the value
Raised(exc) == [raised |-> exc, result |-> Num(0)]
Returned(v) == [raised |-> "", result |-> v]

\* NMRSpectrum.convert(value, unit_from, unit_to)
convert(ax, value, unit_from, unit_to) ==
    LET npts == Num(ax.npts)
        df_hz == FDiv(FAbs(FSub(range_hz(ax)[1], range_hz(ax)[2])), npts)
        df_ppm == FDiv(FAbs(FSub(range_ppm(ax)[1], range_ppm(ax)[2])), npts)
        point == CASE unit_from = "POINTS" ->
                        IF FLess(Num(0), value) THEN value
                        ELSE FAdd(npts, value)
                   [] unit_from = "HZ" ->
                        FDiv(FSub(value, range_hz(ax)[1]), df_hz)
                   [] unit_from = "PPM" ->
                        FDiv(FSub(value, range_ppm(ax)[1]), df_ppm)
                   [] OTHER -> Num(0)
    IN  IF ax.domain_type = "FREQ" /\ (unit_from = "SEC" \/ unit_to = "SEC")
        THEN Raised("KeyError")        \* msg.format() is given no 'unit'
        ELSE IF ax.domain_type = "TIME"
        THEN Raised("AttributeError")  \* UnitType has no member FREQ
        ELSE IF ~(FLess(Num(0), point) /\ FLess(point, npts))
        THEN Raised("AssertionError")
        ELSE CASE unit_to = "POINTS" -> Returned(Num(Round(point)))
               [] unit_to = "HZ" -> Returned(FMul(point, df_hz))
               [] unit_to = "PPM" -> Returned(FMul(point, df_ppm))

NoCall == [value |-> Num(0), unit_from |-> "-", unit_to |-> "-",
           raised |-> "-", result |-> Num(0)]
Call(value, unit_from, unit_to, r) ==
    [value |-> value, unit_from |-> unit_from, unit_to |-> unit_to,
     raised |-> r.raised, result |-> r.result]

ConvertStart ==
    /\ axis = [npts |-> 2, domain_type |-> "FREQ", left_hz |-> 1,
               right_hz |-> 0, obs_mhz |-> 1]
    /\ there = NoCall
    /\ back = NoCall

\* The last axis of any loaded spectrum
ConvertAny ==
    /\ axis \in {ax \in [npts : 2..MaxNpts, domain_type : {"FREQ", "TIME"},
                         left_hz : (-MaxHz)..MaxHz,
                         right_hz : (-MaxHz)..MaxHz, obs_mhz : 1..MaxObs] :
                   ax.left_hz > ax.right_hz}
    /\ there = NoCall
    /\ back = NoCall

\* v = spectrum.convert(value, unit_from, unit_to)
ConvertThere(value, unit_from, unit_to) ==
    /\ there = NoCall
    /\ there' = Call(Num(value), unit_from, unit_to,
                     convert(axis, Num(value), unit_from, unit_to))
    /\ UNCHANGED <<axis, back>>
    /\ UNCHANGED notConvert

\* spectrum.convert(v, unit_to, unit_from)
ConvertBack ==
    /\ there # NoCall /\ there.raised = ""
    /\ back = NoCall
    /\ back' = Call(there.result, there.unit_to, there.unit_from,
                    convert(axis, there.result, there.unit_to,
                            there.unit_from))
    /\ UNCHANGED <<axis, there>>
    /\ UNCHANGED notConvert

ConvertNext ==
    \/ \E value \in (-1)..(MaxNpts - 1), unit_from \in Units,
          unit_to \in Units : ConvertThere(value, unit_from, unit_to)
    \/ ConvertBack

-----------------------------------------------------------------------------
(* spectra/nmrpipe/nmrpipe_spectrum.py and spectra/nmr_spectrum.py: transpose *)

\* The F1..F4 channels of the header, and the dimension counts with a transpose
Channels == 1..4
DimCounts == 2..4

\* What the header holds per channel; transpose changes none of these.
\* FDF{c}SW, FDF{c}LABEL, and the points acquired in the channel
FDFSW(c) == 1000 * c
FDFLABEL(c) == <<"F", c>>
Pts(c) == c + 1

Reverse(q) == [i \in 1..Len(q) |-> q[Len(q) + 1 - i]]

\* NMRPipeSpectrum.ndims
ndims(m) == m.FDDIMCOUNT

\* NMRPipeSpectrum.order: fddimorder[:ndims][::-1]
order(m) == Reverse(SubSeq(m.FDDIMORDER, 1, ndims(m)))

\* NMRPipeSpectrum.data_type, sw and label: one entry per axis, each looked
\* up through order (dim counts from 0 as in the code)
data_type(m, dim) == m.FDFQUADFLAG[order(m)[dim + 1]]
sw(m) == [d \in 1..ndims(m) |-> FDFSW(order(m)[d])]
label(m) == [d \in 1..ndims(m) |-> FDFLABEL(order(m)[d])]

\* NMRPipeSpectrum.data_layout(dim, data_type): the first statement replaces a
\* given data_type by the axis's current one and keeps None when none is given
data_layout(m, dim, given) ==
    LET dt == IF given # None THEN data_type(m, dim) ELSE "None"
    IN  IF dt \in {"REAL", "IMAG"} THEN "CONTIGUOUS"
        ELSE IF dim = ndims(m) - 1 /\ dt = "COMPLEX" THEN "BLOCK_INTERLEAVE"
        ELSE IF dt = "COMPLEX" THEN "SINGLE_INTERLEAVE"
        ELSE "NotImplementedError"

\* self.data, as far as transpose is concerned: size and dtype
Data(size, complex) == [size |-> size, complex |-> complex]
Ok(d) == [raised |-> "", data |-> d]
Fail(exc, d) == [raised |-> exc, data |-> d]

\* The size and dtype the spectra/utils.py functions give; .imag of a real
\* tensor and torch.complex of unequal or complex parts raise RuntimeError
CombineSingleSize(d) ==
    IF ~d.complex THEN Fail("RuntimeError", d)
    ELSE Ok(Data([d.size EXCEPT ![Len(d.size)] = 2 * @], FALSE))
CombineBlockSize(d) ==
    IF ~d.complex THEN Fail("RuntimeError", d)
    ELSE Ok(Data([d.size EXCEPT ![hstack_axis(Len(d.size))] = 2 * @], FALSE))
SplitSize(d) ==
    IF d.complex \/ d.size[Len(d.size)] % 2 = 1 THEN Fail("RuntimeError", d)
    ELSE Ok(Data([d.size EXCEPT ![Len(d.size)] = @ \div 2], TRUE))

\* torch.transpose(data, dim0, dim1)
TorchTranspose(d, dim0, dim1) ==
    Data([d.size EXCEPT ![dim0 + 1] = d.size[dim1 + 1],
                        ![dim1 + 1] = d.size[dim0 + 1]], d.complex)

\* NMRSpectrum.transpose(dim0, dim1, update_data_layout=True): pack the last
\* axis when it is complex, swap the axes, unpack the new last axis
Pack(m, d, dim0, dim1) ==
    IF dim1 = ndims(m) - 1 /\ data_type(m, dim1) = "COMPLEX"
    THEN LET new_data_layout == data_layout(m, dim0, Some("COMPLEX"))
         IN  IF new_data_layout = "BLOCK_INTERLEAVE" THEN CombineBlockSize(d)
             ELSE IF new_data_layout = "SINGLE_INTERLEAVE"
             THEN CombineSingleSize(d)
             ELSE Fail("NotImplementedError", d)
    ELSE Ok(d)

Unpack(m, d, dim0, dim1) ==
    IF dim1 = ndims(m) - 1 /\ data_type(m, dim0) = "COMPLEX"
    THEN LET old_data_layout == data_layout(m, dim0, Some("COMPLEX"))
         IN  IF old_data_layout \in {"BLOCK_INTERLEAVE", "SINGLE_INTERLEAVE"}
             THEN SplitSize(d)
             ELSE Fail("NotImplementedError", d)
    ELSE Ok(d)

NMRSpectrum_transpose(m, d, dim0, dim1) ==
    LET lo == IF dim0 < dim1 THEN dim0 ELSE dim1
        hi == IF dim0 < dim1 THEN dim1 ELSE dim0
        packed == Pack(m, d, lo, hi)
    IN  IF packed.raised # "" THEN packed
        ELSE Unpack(m, TorchTranspose(packed.data, lo, hi), lo, hi)

\* reduce(lambda x, y: x * y, size[:-1])
RECURSIVE Product(_, _)
Product(size, n) == IF n = 0 THEN 1 ELSE size[n] * Product(size, n - 1)

\* NMRPipeSpectrum.transpose, were the entry at dim1 copied to dim0 and the
\* entry at dim1 kept
NMRPipeSpectrum_transpose_copied(m, d, dim0, dim1) ==
    LET old == SubSeq(m.FDDIMORDER, 1, ndims(m))
        new_order == [old EXCEPT ![dim0 + 1] = old[dim1 + 1]]
        r == NMRSpectrum_transpose(m, d, dim0, dim1)
        n == Len(r.data.size)
    IN  IF r.raised # "" THEN [raised |-> r.raised, data |-> r.data, meta |-> m]
        ELSE [raised |-> "", data |-> r.data,
              meta |-> [m EXCEPT
                  !.FDDIMORDER = [i \in 1..4 |-> IF i <= Len(new_order)
                                                 THEN new_order[i] ELSE @[i]],
                  !.FDSIZE = r.data.size[n],
                  !.FDSPECNUM = Product(r.data.size, n - 1),
                  !.FDSLICECOUNT0 = Product(r.data.size, n - 1),
                  !.FDTRANSPOSED = IF @ = 1 THEN 0 ELSE 1]]

\* NMRPipeSpectrum.transpose(dim0, dim1): the new FDDIMORDER is the header's
\* own list with the entries at dim0 and dim1 exchanged
NMRPipeSpectrum_transpose(m, d, dim0, dim1) ==
    LET old == SubSeq(m.FDDIMORDER, 1, ndims(m))
        new_order == [old EXCEPT ![dim0 + 1] = old[dim1 + 1],
                                 ![dim1 + 1] = old[dim0 + 1]]
        r == NMRSpectrum_transpose(m, d, dim0, dim1)
        n == Len(r.data.size)
    IN  IF r.raised # "" THEN [raised |-> r.raised, data |-> r.data, meta |-> m]
        ELSE [raised |-> "", data |-> r.data,
              meta |-> [m EXCEPT
                  !.FDDIMORDER = [i \in 1..4 |-> IF i <= Len(new_order)
                                                 THEN new_order[i] ELSE @[i]],
                  !.FDSIZE = r.data.size[n],
                  !.FDSPECNUM = Product(r.data.size, n - 1),
                  !.FDSLICECOUNT0 = Product(r.data.size, n - 1),
                  !.FDTRANSPOSED = IF @ = 1 THEN 0 ELSE 1]]

\* The tensor load() builds for a header: the last axis holds its channel's
\* points (complex dtype when the channel is complex), every other complex
\* axis holds real and imaginary rows in turn
LoadedData(m) ==
    LET n == ndims(m)
    IN  Data([d \in 1..n |->
                 IF d < n /\ data_type(m, d - 1) = "COMPLEX"
                 THEN 2 * Pts(order(m)[d]) ELSE Pts(order(m)[d])],
             data_type(m, n - 1) = "COMPLEX")

\* The headers of spectrum files: FDDIMORDER1..ndims a permutation of the
\* channels 1..ndims, each channel REAL or COMPLEX
Headers ==
    {m \in [FDDIMCOUNT : DimCounts, FDDIMORDER : [1..4 -> Channels],
            FDFQUADFLAG : [Channels -> {"REAL", "COMPLEX"}],
            FDSIZE : {0}, FDSPECNUM : {0}, FDSLICECOUNT0 : {0},
            FDTRANSPOSED : {0, 1}] :
        /\ {m.FDDIMORDER[i] : i \in 1..m.FDDIMCOUNT} = 1..m.FDDIMCOUNT
        /\ \A i \in (m.FDDIMCOUNT + 1)..4 :
              m.FDDIMORDER[i] = i /\ m.FDFQUADFLAG[i] = "REAL"}

Snapshot(m, d) ==
    [order |-> order(m), size |-> d.size, sw |-> sw(m), label |-> label(m)]

WithSizes(m, d) ==
    [m EXCEPT !.FDSIZE = d.size[Len(d.size)],
              !.FDSPECNUM = Product(d.size, Len(d.size) - 1),
              !.FDSLICECOUNT0 = Product(d.size, Len(d.size) - 1)]

TransposeStart ==
    /\ tmeta = [FDDIMCOUNT |-> 2, FDDIMORDER |-> <<2, 1, 3, 4>>,
                FDFQUADFLAG |-> [c \in Channels |-> "REAL"],
                FDSIZE |-> 0, FDSPECNUM |-> 0, FDSLICECOUNT0 |-> 0,
                FDTRANSPOSED |-> 0]
    /\ tdata = Data(<<>>, FALSE)
    /\ atload = [order |-> <<>>, size |-> <<>>, sw |-> <<>>, label |-> <<>>]
    /\ tcalls = <<>>
    /\ traised = ""

\* NMRPipeSpectrum(in_filepath) of any such file
TransposeAny ==
    /\ \E m \in Headers :
          /\ tmeta = WithSizes(m, LoadedData(m))
          /\ tdata = LoadedData(m)
          /\ atload = Snapshot(m, LoadedData(m))
    /\ tcalls = <<>>
    /\ traised = ""

\* spectrum.transpose(dim0, dim1)
Transpose(dim0, dim1) ==
    /\ Len(tcalls) < MaxTransposes
    /\ traised = ""
    /\ dim0 < ndims(tmeta) /\ dim1 < ndims(tmeta) /\ dim0 # dim1
    /\ LET r == NMRPipeSpectrum_transpose(tmeta, tdata, dim0, dim1)
       IN  /\ tmeta' = r.meta
           /\ tdata' = r.data
           /\ traised' = r.raised
    /\ tcalls' = Append(tcalls, <<dim0, dim1>>)
    /\ UNCHANGED atload
    /\ UNCHANGED notTranspose

TransposeNext == \E dim0 \in 0..3, dim1 \in 0..3 : Transpose(dim0, dim1)

-----------------------------------------------------------------------------
(* gui/nmrdesk.py and gui/plot_widgets.py: the main window *)

\* The paths a spectrum is opened from, and the file behind each: its
\* dimension count, 0 when there is no such file
GuiPaths == {"missing.ft2", "oned.ft", "twod.ft2"}
FileNdims(in_filepath) ==
    CASE in_filepath = "missing.ft2" -> 0
      [] in_filepath = "oned.ft" -> 1
      [] in_filepath = "twod.ft2" -> 2

\* NMRPipeSpectrum(in_filepath): load() opens the file
NMRPipeSpectrum_init(in_filepath, id) ==
    IF FileNdims(in_filepath) = 0
    THEN [raised |-> "FileNotFoundError",
          spectrum |-> [in_filepath |-> in_filepath, ndims |-> 0, id |-> 0]]
    ELSE [raised |-> "",
          spectrum |-> [in_filepath |-> in_filepath,
                        ndims |-> FileNdims(in_filepath), id |-> id]]

\* FlexibleViewBox(): the state of a new view box, the mouse interaction by
\* the name of the enum member
FlexibleViewBox_init == [mouseInteraction |-> "NAVIGATION"]

\* FlexibleViewBox.getMouseInteraction()
getMouseInteraction(viewBox) == viewBox.mouseInteraction

\* FlexibleViewBox.showAxRect(ax): TRUE when the dragged rectangle is
\* zoomed into, FALSE when the gesture is swallowed
showAxRect(viewBox) == getMouseInteraction(viewBox) # "ADDPEAKS"

\* NMRSpectrumContour2D(spectra=[spectrum]): the base class makes the view
\* box, _setupAxes reads label[0] and label[1] of the first spectrum
NMRSpectrumContour2D_init(spectrum) ==
    IF spectrum.ndims < 2
    THEN [raised |-> "IndexError",
          widget |-> [name |-> "", spectra |-> <<>>,
                      viewBox |-> FlexibleViewBox_init]]
    ELSE [raised |-> "",
          widget |-> [name |-> "NMRSpectrumContour2D",
                      spectra |-> <<spectrum>>,
                      viewBox |-> FlexibleViewBox_init]]

\* An empty QStackedWidget or QComboBox has the current index -1
NoIndex == -1

\* NMRDeskWindow._updatePlotSelector: clear the selector, one entry per
\* widget of the stack, the stack's current index selected
updatePlotSelector(stack) ==
    [items |-> [i \in 1..Len(stack.widgets) |-> stack.widgets[i].name],
     index |-> stack.index]

\* QStackedWidget.setCurrentIndex(index): currentChanged is emitted when the
\* current widget changes, and the connected _updatePlotSelector runs
setCurrentIndex(stack, selector, index) ==
    IF index = stack.index \/ index < 0 \/ index >= Len(stack.widgets)
    THEN [stack |-> stack, selector |-> selector]
    ELSE LET now == [stack EXCEPT !.index = index]
         IN  [stack |-> now, selector |-> updatePlotSelector(now)]

\* QStackedWidget.addWidget(widget): the widget is appended; it becomes the
\* current widget, and currentChanged is emitted, only when the stack was
\* empty
addWidget(stack, selector, widget) ==
    LET grown == [stack EXCEPT !.widgets = Append(@, widget)]
    IN  IF Len(stack.widgets) = 0
        THEN setCurrentIndex(grown, selector, 0)
        ELSE [stack |-> grown, selector |-> selector]

\* NMRDeskWindow.addSpectrum(in_filepath): the window after the call and the
\* exception that left it
addSpectrum(in_filepath, id) ==
    LET made == NMRPipeSpectrum_init(in_filepath, id)
        plot == NMRSpectrumContour2D_init(made.spectrum)
        added == addWidget(plotStack, plotSelector, plot.widget)
    IN  IF made.raised # ""
        THEN [raised |-> made.raised, spectra |-> window_spectra,
              stack |-> plotStack, selector |-> plotSelector]
        ELSE IF plot.raised # ""
        THEN [raised |-> plot.raised,
              spectra |-> Append(window_spectra, made.spectrum),
              stack |-> plotStack, selector |-> plotSelector]
        ELSE [raised |-> "",
              spectra |-> Append(window_spectra, made.spectrum),
              stack |-> added.stack, selector |-> added.selector]

GuiCall(op, arg, raised) == [op |-> op, arg |-> arg, raised |-> raised]

\* NMRDeskWindow(): no spectra, an empty stack and an empty selector
GuiStart ==
    /\ window_spectra = <<>>
    /\ plotStack = [widgets |-> <<>>, index |-> NoIndex]
    /\ plotSelector = [items |-> <<>>, index |-> NoIndex]
    /\ dialogs = <<>>
    /\ gcalls = <<>>
    /\ currentMouseMode = "NAVIGATION"

\* window.addSpectrum(in_filepath)
AddSpectrum(in_filepath) ==
    /\ Len(gcalls) < MaxGuiCalls
    /\ LET r == addSpectrum(in_filepath, Len(gcalls) + 1)
       IN  /\ window_spectra' = r.spectra
           /\ plotStack' = r.stack
           /\ plotSelector' = r.selector
           /\ gcalls' = Append(gcalls,
                               GuiCall("addSpectrum", in_filepath, r.raised))
    /\ UNCHANGED <<dialogs, currentMouseMode>>
    /\ UNCHANGED notGui

\* window.fileOpenDialog(): the dialog returns the chosen path, "" when it
\* was cancelled
FileOpenDialog(in_filepath) ==
    /\ Len(gcalls) < MaxGuiCalls
    /\ LET r == IF in_filepath = ""
                THEN [raised |-> "", spectra |-> window_spectra,
                      stack |-> plotStack, selector |-> plotSelector]
                ELSE addSpectrum(in_filepath, Len(gcalls) + 1)
       IN  /\ window_spectra' = r.spectra
           /\ plotStack' = r.stack
           /\ plotSelector' = r.selector
           /\ gcalls' = Append(gcalls,
                               GuiCall("fileOpenDialog", in_filepath,
                                       r.raised))
    /\ UNCHANGED <<dialogs, currentMouseMode>>
    /\ UNCHANGED notGui

\* The visible page of the stack is switched: plotStack.setCurrentIndex(index)
SwitchPage(index) ==
    /\ Len(gcalls) < MaxGuiCalls
    /\ index \in 0..(Len(plotStack.widgets) - 1)
    /\ LET r == setCurrentIndex(plotStack, plotSelector, index)
       IN  /\ plotStack' = r.stack
           /\ plotSelector' = r.selector
    /\ gcalls' = Append(gcalls, GuiCall("setCurrentIndex", "", ""))
    /\ UNCHANGED <<window_spectra, dialogs, currentMouseMode>>
    /\ UNCHANGED notGui

\* The user picks an entry of the selector: the combobox makes it current and
\* emits activated(index), connected to plotStack.setCurrentIndex
Activated(index) ==
    /\ Len(gcalls) < MaxGuiCalls
    /\ index \in 0..(Len(plotSelector.items) - 1)
    /\ LET r == setCurrentIndex(plotStack,
                                [plotSelector EXCEPT !.index = index], index)
       IN  /\ plotStack' = r.stack
           /\ plotSelector' = r.selector
    /\ gcalls' = Append(gcalls, GuiCall("activated", "", ""))
    /\ UNCHANGED <<window_spectra, dialogs, currentMouseMode>>
    /\ UNCHANGED notGui

\* NMRDeskWindow.setMouseMode(mode): the mode the window keeps
setMouseMode(mode) == mode

\* The navigate or the add-peaks action of the action group is triggered:
\* window.setMouseMode(mode)
SetMouseMode(mode) ==
    /\ Len(gcalls) < MaxGuiCalls
    /\ currentMouseMode' = setMouseMode(mode)
    /\ gcalls' = Append(gcalls, GuiCall("setMouseMode", mode, ""))
    /\ UNCHANGED <<window_spectra, plotStack, plotSelector, dialogs>>
    /\ UNCHANGED notGui

GuiNext ==
    \/ \E mode \in {"NAVIGATION", "ADDPEAKS"} : SetMouseMode(mode)
    \/ \E in_filepath \in GuiPaths : AddSpectrum(in_filepath)
    \/ \E in_filepath \in GuiPaths \cup {""} : FileOpenDialog(in_filepath)
    \/ \E index \in 0..(MaxGuiCalls - 1) : SwitchPage(index)
    \/ \E index \in 0..(MaxGuiCalls - 1) : Activated(index)

-----------------------------------------------------------------------------
(* spectra/nmrpipe/nmrpipe_spectrum.py: load, the mutators and data_layout *)

\* The headers of the files opened: 2 or 3 dimensions, not yet transposed
SpectrumHeaders ==
    {m \in Headers : m.FDDIMCOUNT <= MaxDims /\ m.FDTRANSPOSED = 0}

\* The tensor load_nmrpipe_tensor gives for one plane file of a series of 3
\* or more dimensions: the two inner axes, the header left as the file has it
PlaneData(m) ==
    LET whole == LoadedData(m)
        n == Len(whole.size)
    IN  Data(SubSeq(whole.size, n - 1, n), whole.complex)

\* NMRPipeSpectrum.load(): a path with a %d mask loads the whole series,
\* any other path the one file
load(m, is_multifile) ==
    LET d == IF ndims(m) > 2 /\ ~is_multifile THEN PlaneData(m)
             ELSE LoadedData(m)
    IN  [meta |-> WithSizes(m, d), data |-> d]

\* NMRSpectrum.zerofill on the size of the data: the header is not touched
zerofill_data(d, double, pad) ==
    LET npts == d.size[Len(d.size)]
        delta == zerofill_size(npts, double, None, None, pad) - npts
    IN  IF delta > 0
        THEN Ok(Data([d.size EXCEPT ![Len(d.size)] = npts + delta], d.complex))
        ELSE Fail("AssertionError", d)

\* NMRPipeSpectrum.transpose on data of any rank: torch.transpose raises
\* IndexError for an axis the tensor does not have, after the last axis was
\* packed
transpose(m, d, dim0, dim1) ==
    LET lo == IF dim0 < dim1 THEN dim0 ELSE dim1
        hi == IF dim0 < dim1 THEN dim1 ELSE dim0
        packed == Pack(m, d, lo, hi)
    IN  IF hi < Len(d.size) THEN NMRPipeSpectrum_transpose(m, d, dim0, dim1)
        ELSE IF packed.raised # ""
        THEN [raised |-> packed.raised, data |-> packed.data, meta |-> m]
        ELSE [raised |-> "IndexError", data |-> packed.data, meta |-> m]

DataTypes == {"REAL", "IMAG", "COMPLEX"}

\* A data_layout call: its arguments, the axis's data type and whether the
\* axis was the last one when it was made, and what it returned or raised
NoQuery == [dim |-> -1, data_type |-> None, current |-> "", last |-> FALSE,
            result |-> ""]

SpectrumStart ==
    /\ smeta = [FDDIMCOUNT |-> 2, FDDIMORDER |-> <<2, 1, 3, 4>>,
                FDFQUADFLAG |-> [c \in Channels |-> "REAL"],
                FDSIZE |-> 0, FDSPECNUM |-> 0, FDSLICECOUNT0 |-> 0,
                FDTRANSPOSED |-> 0]
    /\ sdata = Data(<<>>, FALSE)
    /\ scalls = <<>>
    /\ queried = NoQuery

\* NMRPipeSpectrum(in_filepath) of any such file
SpectrumAny ==
    /\ \E m \in SpectrumHeaders, is_multifile \in BOOLEAN :
          /\ is_multifile => ndims(m) > 2
          /\ smeta = load(m, is_multifile).meta
          /\ sdata = load(m, is_multifile).data
    /\ scalls = <<>>
    /\ queried = NoQuery

\* spectrum.transpose(dim0, dim1)
SpectrumTranspose(dim0, dim1) ==
    /\ Len(scalls) < MaxCalls
    /\ dim0 < ndims(smeta) /\ dim1 < ndims(smeta) /\ dim0 # dim1
    /\ LET r == transpose(smeta, sdata, dim0, dim1)
       IN  /\ smeta' = r.meta
           /\ sdata' = r.data
           /\ scalls' = Append(scalls, [op |-> "transpose",
                                        dims |-> <<dim0, dim1>>,
                                        pad |-> None,
                                        raised |-> r.raised])
    /\ UNCHANGED queried
    /\ UNCHANGED notSpectrum

\* spectrum.zerofill(double=double, pad=pad)
SpectrumZerofill(double, pad) ==
    /\ Len(scalls) < MaxCalls
    /\ LET r == zerofill_data(sdata, double, pad)
       IN  /\ sdata' = r.data
           /\ scalls' = Append(scalls, [op |-> "zerofill",
                                        dims |-> <<>>, pad |-> pad,
                                        raised |-> r.raised])
    /\ UNCHANGED <<smeta, queried>>
    /\ UNCHANGED notSpectrum

\* spectrum.data_layout(dim, data_type)
SpectrumDataLayout(dim, given) ==
    /\ dim < ndims(smeta)
    /\ queried' = [dim |-> dim, data_type |-> given,
                   current |-> data_type(smeta, dim),
                   last |-> (dim = ndims(smeta) - 1),
                   result |-> data_layout(smeta, dim, given)]
    /\ UNCHANGED <<smeta, sdata, scalls>>
    /\ UNCHANGED notSpectrum

SpectrumNext ==
    \/ \E dim0 \in 0..(MaxDims - 1), dim1 \in 0..(MaxDims - 1) :
          SpectrumTranspose(dim0, dim1)
    \/ \E pad \in Optional(1..1) : SpectrumZerofill(1, pad)
    \/ \E dim \in 0..(MaxDims - 1), given \in Optional(DataTypes) :
          SpectrumDataLayout(dim, given)

-----------------------------------------------------------------------------
(* spectra/nmrpipe/definitions.py: the cached header field catalog *)

\* The threads of the process, each calling get_nmrpipe_definitions once
Threads == 1..MaxThreads

\* The names the #define lines of offsets_str give, in their order
Catalog == <<"FDMAGIC", "FDFLTFORMAT", "FDFLTORDER">>

\* A global that is still None, and a call that has not returned
Unset == 0

\* all(i is not None for i in (field_locations, field_descriptions,
\* text_fields)); field_descriptions is bound together with field_locations
all_cached(g) == g.field_locations # Unset /\ g.text_fields # Unset

DefsStart ==
    /\ globals = [field_locations |-> Unset, text_fields |-> Unset]
    /\ heap = <<>>
    /\ tpc = [t \in Threads |-> "idle"]
    /\ cursor = [t \in Threads |-> 0]
    /\ handed = [t \in Threads |-> Unset]

\* A thread calls the function and tests the cached globals
DefsCall(t) ==
    /\ tpc[t] = "idle"
    /\ tpc' = [tpc EXCEPT ![t] = IF all_cached(globals) THEN "return"
                                 ELSE "bind"]
    /\ UNCHANGED <<globals, heap, cursor, handed>>
    /\ UNCHANGED notDefs

\* field_locations, field_descriptions = {}, NMRMetaDescriptionDict(): the
\* global is bound to a new and empty dict
DefsBind(t) ==
    /\ tpc[t] = "bind"
    /\ heap' = Append(heap, {})
    /\ globals' = [globals EXCEPT !.field_locations = Len(heap) + 1]
    /\ tpc' = [tpc EXCEPT ![t] = "fill"]
    /\ UNCHANGED <<cursor, handed>>
    /\ UNCHANGED notDefs

\* One turn of the loop: field_locations[name] = int(offset) stores into the
\* dict the global is bound to at that moment
DefsFill(t) ==
    /\ tpc[t] = "fill"
    /\ cursor[t] < Len(Catalog)
    /\ heap' = [heap EXCEPT ![globals.field_locations] =
                                @ \cup {Catalog[cursor[t] + 1]}]
    /\ cursor' = [cursor EXCEPT ![t] = @ + 1]
    /\ UNCHANGED <<globals, tpc, handed>>
    /\ UNCHANGED notDefs

\* The loop has ended: text_fields = {...}
DefsText(t) ==
    /\ tpc[t] = "fill"
    /\ cursor[t] = Len(Catalog)
    /\ globals' = [globals EXCEPT !.text_fields = 1]
    /\ tpc' = [tpc EXCEPT ![t] = "return"]
    /\ UNCHANGED <<heap, cursor, handed>>
    /\ UNCHANGED notDefs

\* return field_locations, field_descriptions, text_fields
DefsReturn(t) ==
    /\ tpc[t] = "return"
    /\ handed' = [handed EXCEPT ![t] = globals.field_locations]
    /\ tpc' = [tpc EXCEPT ![t] = "done"]
    /\ UNCHANGED <<globals, heap, cursor>>
    /\ UNCHANGED notDefs

DefsNext ==
    \E t \in Threads :
        \/ DefsCall(t)
        \/ DefsBind(t)
        \/ DefsFill(t)
        \/ DefsText(t)
        \/ DefsReturn(t)

-----------------------------------------------------------------------------
(* spectra/nmrpipe/fileio.py: parse_nmrpipe_meta *)

\* The headers of spectrum files of 1 to 3 dimensions: FDDIMORDER1..ndims a
\* permutation of the channels, FDSIZE the points of a row, FDSPECNUM the rows
\* of the file (1 for a 1D file, real and imaginary rows counted apart)
ParseHeaders ==
    {m \in [FDDIMCOUNT : 1..MaxDims, FDDIMORDER : [1..4 -> Channels],
            FDFQUADFLAG : [Channels -> {"REAL", "COMPLEX"}],
            FDSIZE : 1..MaxAxis, FDSPECNUM : 1..(2 * MaxAxis)] :
        /\ {m.FDDIMORDER[i] : i \in 1..m.FDDIMCOUNT} = 1..m.FDDIMCOUNT
        /\ \A i \in (m.FDDIMCOUNT + 1)..4 :
              m.FDDIMORDER[i] = i /\ m.FDFQUADFLAG[i] = "REAL"
        /\ m.FDDIMCOUNT = 1 => m.FDSPECNUM = 1
        /\ (m.FDDIMCOUNT > 1 /\ m.FDFQUADFLAG[m.FDDIMORDER[2]] = "COMPLEX")
              => m.FDSPECNUM % 2 = 0}

\* The labels zipped with order and data_type
PtsLabels == <<"fdsize", "fdspecnum">>

\* parse_nmrpipe_meta(meta): zip_longest goes on to the longest of order,
\* data_type and the two labels, filling the shorter ones with None; a label
\* of None is no key of result
parse_nmrpipe_meta(m) ==
    LET n == m.FDDIMCOUNT
        ord == SubSeq(m.FDDIMORDER, 1, n)
        dtype == [i \in 1..n |-> m.FDFQUADFLAG[ord[i]]]
        turns == IF n > Len(PtsLabels) THEN n ELSE Len(PtsLabels)
        dt(k) == IF k <= n THEN dtype[k] ELSE "None"
        pts == [k \in 1..Len(PtsLabels) |->
                   IF PtsLabels[k] = "fdsize" THEN m.FDSIZE
                   ELSE IF dt(k) = "COMPLEX" THEN m.FDSPECNUM \div 2
                   ELSE m.FDSPECNUM]
        data_pts == [k \in 1..Len(PtsLabels) |->
                        IF PtsLabels[k] = "fdsize"
                        THEN IF dt(k) = "COMPLEX" THEN m.FDSIZE * 2
                             ELSE m.FDSIZE
                        ELSE m.FDSPECNUM]
    IN  IF turns > Len(PtsLabels)
        THEN [raised |-> "KeyError", ndims |-> n, order |-> ord,
              data_type |-> dtype, pts |-> <<>>, data_pts |-> <<>>]
        ELSE [raised |-> "", ndims |-> n, order |-> ord,
              data_type |-> dtype, pts |-> pts, data_pts |-> data_pts]

NotParsed == [raised |-> "-", ndims |-> 0, order |-> <<>>,
              data_type |-> <<>>, pts |-> <<>>, data_pts |-> <<>>]

ParseStart ==
    /\ pmeta = [FDDIMCOUNT |-> 1, FDDIMORDER |-> <<1, 2, 3, 4>>,
                FDFQUADFLAG |-> [c \in Channels |-> "REAL"],
                FDSIZE |-> 1, FDSPECNUM |-> 1]
    /\ parsed = NotParsed

\* The header of any such file
ParseAny ==
    /\ pmeta \in ParseHeaders
    /\ parsed = NotParsed

\* result = parse_nmrpipe_meta(meta)
Parse ==
    /\ parsed = NotParsed
    /\ parsed' = parse_nmrpipe_meta(pmeta)
    /\ UNCHANGED pmeta
    /\ UNCHANGED notParse

ParseNext == Parse

-----------------------------------------------------------------------------
(* spectra/nmrpipe/nmrpipe_spectrum.py and spectra/nmr_spectrum.py: phase, ft *)

\* The values of FDDMXFLAG in the headers opened: absent, or a float
DmxFlags == {None} \cup {Some(Frac(n, 4)) : n \in {-5, -4, -3, 0, 3, 4, 8}}

\* The phases (in degrees) a header holds and a call is given
Phases == {0, 90}

\* NMRPipeSpectrum.domain_type, sign_adjustment and plane2dphase: header
\* codes are written as the enum member find_mapping gives for them
domain_type(m, dim) == m.FDFFTFLAG[order(m)[dim + 1]]
sign_adjustment(m, dim) == m.FDFAQSIGN[order(m)[dim + 1]]
plane2dphase(m) == m.FD2DPHASE

\* NMRPipeSpectrum.group_delay: the delay in points bruker_group_delay gives
\* for FDDMXVAL, None when the value is no known decimation
group_delay(m) == IF m.FDDMXVAL = 0 THEN None ELSE Some(Frac(271, 4))

\* NMRPipeSpectrum.correct_digital_filter, were -1 to ask for the correction
correct_digital_filter_on(m) ==
    LET dmxflag == IF m.FDDMXFLAG = None THEN -1 ELSE Round(m.FDDMXFLAG[1])
    IN  IF dmxflag = 1 THEN FALSE ELSE TRUE

\* NMRPipeSpectrum.correct_digital_filter
correct_digital_filter(m) ==
    LET dmxflag == IF m.FDDMXFLAG = None THEN -1 ELSE Round(m.FDDMXFLAG[1])
    IN  IF dmxflag = -1 \/ dmxflag = 1 THEN FALSE ELSE TRUE

\* self.data as far as phase and ft go: whether its dtype is complex, and how
\* many times it was rolled by the group delay, transformed, and given the
\* phase correction of the digital filter
FtData(complex, rolls, ffts, corrections) ==
    [complex |-> complex, rolls |-> rolls, ffts |-> ffts,
     corrections |-> corrections]

\* NMRSpectrum.phase(p0, p1, discard_imaginaries): the in-place product with
\* a complex tensor raises on real data
NMRSpectrum_phase(d, discard_imaginaries) ==
    IF ~d.complex THEN [raised |-> "RuntimeError", data |-> d]
    ELSE [raised |-> "",
          data |-> [d EXCEPT !.complex = ~discard_imaginaries]]

\* NMRPipeSpectrum.phase(p0, p1, discard_imaginaries)
NMRPipeSpectrum_phase(m, d, p0, p1, discard_imaginaries) ==
    LET rv == NMRSpectrum_phase(d, discard_imaginaries)
        dim == order(m)[ndims(m)]
        quad == IF discard_imaginaries /\ data_type(m, ndims(m) - 1) = "COMPLEX"
                THEN [m EXCEPT !.FDFQUADFLAG[dim] = "REAL"] ELSE m
    IN  IF rv.raised # "" THEN [raised |-> rv.raised, data |-> d, meta |-> m]
        ELSE [raised |-> "", data |-> rv.data,
              meta |-> [quad EXCEPT !.FDFp0[dim] = Some(p0),
                                    !.FDFp1[dim] = Some(p1)]]

\* NMRSpectrum.ft(auto=False, real, inv, alt, neg, bruk) called on an
\* NMRPipeSpectrum: center and flip keep their defaults. The phase correction
\* of the digital filter goes through self.phase(..., update_meta=False),
\* which is NMRPipeSpectrum.phase and takes no update_meta
NMRSpectrum_ft(m, d, real, inv, alt, neg, bruk) ==
    LET isreal == bruk \/ real
        cdf == correct_digital_filter(m)
        rolled == IF cdf THEN [d EXCEPT !.rolls = @ + 1] ELSE d
        done == [rolled EXCEPT !.complex = TRUE, !.ffts = @ + 1]
    IN  IF (isreal \/ neg) /\ ~d.complex
        THEN [raised |-> "RuntimeError", data |-> d]
        ELSE IF cdf /\ group_delay(m) = None
        THEN [raised |-> "TypeError", data |-> d]
        ELSE IF cdf THEN [raised |-> "TypeError", data |-> done]
        ELSE [raised |-> "", data |-> done]

\* NMRPipeSpectrum.ft(auto, real, inv, alt, neg, bruk)
NMRPipeSpectrum_ft(m, d, auto, real, inv, alt, neg, bruk) ==
    LET last == ndims(m) - 1
        freq == domain_type(m, last) = "FREQ"
        inv1 == IF auto THEN ~freq ELSE inv
        real1 == IF ~auto THEN real
                 ELSE IF freq THEN FALSE
                 ELSE plane2dphase(m) \in {"MAGNITUDE", "TPPI"}
        alt1 == IF ~auto THEN alt
                ELSE IF freq THEN FALSE
                ELSE sign_adjustment(m, last) \in {"REAL", "COMPLEX"}
        neg1 == IF ~auto THEN neg
                ELSE IF freq THEN FALSE
                ELSE sign_adjustment(m, last) \in
                         {"NEGATE_IMAG", "REAL_NEGATE_IMAG",
                          "COMPLEX_NEGATE_IMAG"}
        rv == NMRSpectrum_ft(m, d, real1, inv1, alt1, neg1, bruk)
        last_dim == order(m)[ndims(m)]
    IN  IF rv.raised # "" THEN [raised |-> rv.raised, data |-> rv.data, meta |-> m]
        ELSE [raised |-> "", data |-> rv.data,
              meta |-> [m EXCEPT
                  !.FDFAQSIGN[last_dim] = "NONE",
                  !.FDFFTFLAG[last_dim] = IF inv1 THEN "TIME" ELSE "FREQ"]]

\* The headers of the files opened: one or two dimensions, the phase fields
\* FDF{n}P0 and FDF{n}P1 of every channel at zero, the channels of no axis
\* as NMRPipe leaves them
FtHeaders ==
    {m \in [FDDIMCOUNT : 1..2,
            FDDIMORDER : {<<2, 1, 3, 4>>, <<1, 2, 3, 4>>},
            FDFQUADFLAG : [Channels -> {"REAL", "COMPLEX"}],
            FDFFTFLAG : [Channels -> {"TIME", "FREQ"}],
            FDFAQSIGN : [Channels -> {"NONE", "REAL", "NEGATE_IMAG"}],
            FD2DPHASE : {"MAGNITUDE", "STATES"},
            FDDMXFLAG : DmxFlags, FDDMXVAL : {0, 12},
            FDFP0 : {[c \in Channels |-> 0]}, FDFP1 : {[c \in Channels |-> 0]},
            FDFp0 : {[c \in Channels |-> None]},
            FDFp1 : {[c \in Channels |-> None]}] :
        /\ m.FDDIMCOUNT = 1 => m.FDDIMORDER = <<2, 1, 3, 4>>
        /\ \A c \in Channels :
              /\ c > m.FDDIMCOUNT => /\ m.FDFQUADFLAG[c] = "REAL"
                                     /\ m.FDFFTFLAG[c] = "TIME"
              /\ c # 2 => m.FDFAQSIGN[c] = "NONE"
              /\ (c = 1 /\ m.FDDIMCOUNT = 2) => m.FDFQUADFLAG[c] = "COMPLEX"}

\* A call as it is kept: its arguments, the header as it was when the call
\* was made, and the exception raised
FtCall(op, p0, p1, flag, before, raised) ==
    [op |-> op, p0 |-> p0, p1 |-> p1, flag |-> flag, before |-> before,
     raised |-> raised]
NoFtCall == [op |-> "", p0 |-> 0, p1 |-> 0, flag |-> FALSE, before |-> <<>>,
             raised |-> ""]

FtStart ==
    /\ fmeta = [FDDIMCOUNT |-> 1, FDDIMORDER |-> <<2, 1, 3, 4>>,
                FDFQUADFLAG |-> [c \in Channels |-> "REAL"],
                FDFFTFLAG |-> [c \in Channels |-> "TIME"],
                FDFAQSIGN |-> [c \in Channels |-> "NONE"],
                FD2DPHASE |-> "MAGNITUDE",
                FDDMXFLAG |-> None, FDDMXVAL |-> 0,
                FDFP0 |-> [c \in Channels |-> 0],
                FDFP1 |-> [c \in Channels |-> 0],
                FDFp0 |-> [c \in Channels |-> None],
                FDFp1 |-> [c \in Channels |-> None]]
    /\ fdata = FtData(FALSE, 0, 0, 0)
    /\ flast = NoFtCall
    /\ fcount = 0

\* NMRPipeSpectrum(in_filepath) of any such file: the dtype of the data is
\* complex when the last axis is
FtAny ==
    /\ \E m \in FtHeaders :
          /\ fmeta = m
          /\ fdata = FtData(data_type(m, ndims(m) - 1) = "COMPLEX", 0, 0, 0)
    /\ flast = NoFtCall
    /\ fcount = 0

\* spectrum.phase(p0, p1, discard_imaginaries)
FtPhase(p0, p1, discard_imaginaries) ==
    /\ fcount < MaxFtCalls
    /\ LET r == NMRPipeSpectrum_phase(fmeta, fdata, p0, p1,
                                      discard_imaginaries)
       IN  /\ fmeta' = r.meta
           /\ fdata' = r.data
           /\ flast' = FtCall("phase", p0, p1, discard_imaginaries, fmeta,
                              r.raised)
    /\ fcount' = fcount + 1
    /\ UNCHANGED notFt

\* spectrum.ft(auto=auto, real=real, inv=inv): alt, neg and bruk keep their
\* default, False
FtTransform(auto, real, inv) ==
    /\ fcount < MaxFtCalls
    /\ LET r == NMRPipeSpectrum_ft(fmeta, fdata, auto, real, inv, FALSE, FALSE,
                                   FALSE)
       IN  /\ fmeta' = r.meta
           /\ fdata' = r.data
           /\ flast' = FtCall("ft", 0, 0, auto, fmeta, r.raised)
    /\ fcount' = fcount + 1
    /\ UNCHANGED notFt

FtNext ==
    \/ \E p0 \in Phases, p1 \in Phases, discard_imaginaries \in BOOLEAN :
          FtPhase(p0, p1, discard_imaginaries)
    \/ \E auto \in BOOLEAN, real \in BOOLEAN, inv \in BOOLEAN :
          FtTransform(auto, real, inv)

-----------------------------------------------------------------------------
(* spectra/nmr_spectrum.py: NMRSpectrum.apodization_exp *)

\* gen_range(npts, range_type=TIME, sw=sw_hz): the times of npts points one dwell
\* apart, [0, 1/sw, 2/sw, ...]
gen_range(npts, sw_hz) == [i \in 1..npts |-> FDiv(Num(i - 1), sw_hz)]

\* The size the method works with: size = npts if size is None else npts
apodization_size(npts, size) == IF size = None THEN npts ELSE npts

\* NMRSpectrum.apodization_exp(lb, start=start, size=size): the exceptions the
\* call can end with (none when the set is empty). A scaled spectral width of
\* zero is a division by zero in the range; the values assigned to
\* k[start:start + size] must be as many as the slice holds
apodization_exp_raises(ax, start, size) ==
    LET first == IF size = None THEN ax.npts ELSE size[1]
        n == apodization_size(ax.npts, size)
        stop == IF start + n < ax.npts THEN start + n ELSE ax.npts
    IN  (IF first = start THEN {"ZeroDivisionError", "RuntimeError"} ELSE {})
        \cup (IF stop - start # n /\ n # 1 THEN {"RuntimeError"} ELSE {})

\* NMRSpectrum.apodization_exp(lb, start=start, size=size) when it completes:
\* the k of data *= exp(-k) for every point, in units of pi (the ones k starts
\* with are in units of one: none is left when the call completes)
apodization_exp(ax, lb, start, size) ==
    LET first == IF size = None THEN ax.npts ELSE size[1]
        scaled_sw == FDiv(FMul(Num(ax.sw_hz), Num(first - start)), Num(ax.npts))
        n == apodization_size(ax.npts, size)
        t == gen_range(n, scaled_sw)
    IN  [i \in 1..ax.npts |->
            IF i > start /\ i <= start + n
            THEN FAbs(FMul(Num(lb), t[IF n = 1 THEN 1 ELSE i - start]))
            ELSE Num(0)]

\* The decay constants given
Lbs == 0..MaxLb

NoApod == [lb |-> 0, start |-> 0, size |-> None, before |-> <<>>,
           raised |-> ""]

ApodStart ==
    /\ apod = [npts |-> 1, sw_hz |-> 1]
    /\ ascale = <<Num(0)>>
    /\ alast = NoApod
    /\ acount = 0

\* A loaded spectrum: nothing applied to its points yet
ApodAny ==
    /\ \E npts \in 1..MaxNpts, sw_hz \in 1..MaxHz :
          /\ apod = [npts |-> npts, sw_hz |-> sw_hz]
          /\ ascale = [i \in 1..npts |-> Num(0)]
    /\ alast = NoApod
    /\ acount = 0

\* spectrum.apodization_exp(lb, start=start, size=size)
Apodize(lb, start, size) ==
    /\ acount < MaxApods
    /\ start < apod.npts
    /\ size # None => start + size[1] <= apod.npts
    /\ LET raises == apodization_exp_raises(apod, start, size)
           k == apodization_exp(apod, lb, start, size)
       IN  IF raises = {}
           THEN /\ ascale' = [i \in 1..apod.npts |-> FAdd(ascale[i], k[i])]
                /\ alast' = [lb |-> lb, start |-> start, size |-> size,
                             before |-> ascale, raised |-> ""]
           ELSE /\ ascale' = ascale
                /\ \E exc \in raises :
                      alast' = [lb |-> lb, start |-> start, size |-> size,
                                before |-> ascale, raised |-> exc]
    /\ acount' = acount + 1
    /\ UNCHANGED apod
    /\ UNCHANGED notApod

ApodNext ==
    \E lb \in Lbs, start \in 0..(MaxNpts - 1), size \in Optional(1..MaxNpts) :
        Apodize(lb, start, size)

-----------------------------------------------------------------------------
(* processors/fileio.py: SaveSpectra.process *)

\* The spectra handed to the step: each is told from the others by the data
\* it holds, and has its own out_filepath
BatchSpectra == DataTags
OwnPath(spectrum) == IF spectrum = 1 THEN "p.ft" ELSE "q.ft"

\* All sequences over S of at most n elements
SeqsUpTo(S, n) == UNION {[1..k -> S] : k \in 0..n}

\* zip_longest(spectra, out_filepaths, fillvalue=None): NoFile stands for the
\* None that fills the place of a spectrum
zip_longest(spectra, out_filepaths) ==
    LET n == IF Len(spectra) > Len(out_filepaths) THEN Len(spectra)
             ELSE Len(out_filepaths)
    IN  [i \in 1..n |->
            [spectrum |-> IF i <= Len(spectra) THEN spectra[i] ELSE NoFile,
             out_filepath |-> IF i <= Len(out_filepaths)
                              THEN out_filepaths[i] ELSE NoPath]]

\* The loop of SaveSpectra.process from pair i on: spectrum.save of every
\* pair in turn, until one raises or the pairs run out
RECURSIVE SaveFrom(_, _, _, _, _)
SaveFrom(pairs, i, d, saved, overwrite) ==
    IF i > Len(pairs) THEN [raised |-> "", disk |-> d, saved |-> saved]
    ELSE IF pairs[i].spectrum = NoFile
    THEN [raised |-> "AttributeError", disk |-> d, saved |-> saved]
    ELSE LET r == NMRPipeSpectrum_save(d, OwnPath(pairs[i].spectrum),
                                       pairs[i].spectrum,
                                       pairs[i].out_filepath, overwrite)
         IN  IF r.raised # ""
             THEN [raised |-> r.raised, disk |-> r.disk,
                   saved |-> Append(saved, pairs[i])]
             ELSE SaveFrom(pairs, i + 1, r.disk, Append(saved, pairs[i]),
                           overwrite)

BatchStart ==
    /\ batch = [spectra |-> <<>>, out_filepaths |-> <<>>, overwrite |-> TRUE]
    /\ bdisk = [f \in Paths |-> NoFile]
    /\ bsaved = <<>>
    /\ braised = ""
    /\ bpc = "call"

\* Any list of different spectra and any list of output paths
BatchAny ==
    /\ \E spectra \in SeqsUpTo(BatchSpectra, MaxBatch),
          out_filepaths \in SeqsUpTo(Paths, MaxBatch + 1),
          overwrite \in BOOLEAN :
          /\ \A i, j \in 1..Len(spectra) : spectra[i] = spectra[j] => i = j
          /\ batch = [spectra |-> spectra, out_filepaths |-> out_filepaths,
                      overwrite |-> overwrite]
    /\ bdisk \in [Paths -> {NoFile} \cup BatchSpectra]
    /\ bsaved = <<>>
    /\ braised = ""
    /\ bpc = "call"

\* step.process(spectra=spectra, out_filepaths=out_filepaths,
\*              overwrite=overwrite)
BatchProcess ==
    /\ bpc = "call"
    /\ LET r == SaveFrom(zip_longest(batch.spectra, batch.out_filepaths), 1,
                         bdisk, <<>>, batch.overwrite)
       IN  /\ bdisk' = r.disk
           /\ bsaved' = r.saved
           /\ braised' = r.raised
    /\ bpc' = "done"
    /\ UNCHANGED batch
    /\ UNCHANGED notBatch

BatchNext == BatchProcess

-----------------------------------------------------------------------------
(* The specifications: one per component, the others at rest *)

GroupInit ==
    /\ GroupStart
    /\ CliStart
    /\ SaveStart
    /\ HeaderStart
    /\ UtilsStart
    /\ ZerofillStart
    /\ ConvertStart
    /\ TransposeStart
    /\ GuiStart
    /\ SpectrumStart
    /\ DefsStart
    /\ ParseStart
    /\ FtStart
    /\ ApodStart
    /\ BatchStart
SpecGroup == GroupInit /\ [][GroupNext]_vars

CliInit ==
    /\ CliStart
    /\ GroupStart
    /\ SaveStart
    /\ HeaderStart
    /\ UtilsStart
    /\ ZerofillStart
    /\ ConvertStart
    /\ TransposeStart
    /\ GuiStart
    /\ SpectrumStart
    /\ DefsStart
    /\ ParseStart
    /\ FtStart
    /\ ApodStart
    /\ BatchStart
SpecCli == CliInit /\ [][CliNext]_vars

SaveInit ==
    /\ SaveStart
    /\ GroupStart
    /\ CliStart
    /\ HeaderStart
    /\ UtilsStart
    /\ ZerofillStart
    /\ ConvertStart
    /\ TransposeStart
    /\ GuiStart
    /\ SpectrumStart
    /\ DefsStart
    /\ ParseStart
    /\ FtStart
    /\ ApodStart
    /\ BatchStart
SpecSave == SaveInit /\ [][SaveNext]_vars

HeaderInit ==
    /\ HeaderAny
    /\ GroupStart
    /\ CliStart
    /\ SaveStart
    /\ UtilsStart
    /\ ZerofillStart
    /\ ConvertStart
    /\ TransposeStart
    /\ GuiStart
    /\ SpectrumStart
    /\ DefsStart
    /\ ParseStart
    /\ FtStart
    /\ ApodStart
    /\ BatchStart
SpecHeader == HeaderInit /\ [][HeaderNext]_vars

UtilsInit ==
    /\ UtilsAny
    /\ GroupStart
    /\ CliStart
    /\ SaveStart
    /\ HeaderStart
    /\ ZerofillStart
    /\ ConvertStart
    /\ TransposeStart
    /\ GuiStart
    /\ SpectrumStart
    /\ DefsStart
    /\ ParseStart
    /\ FtStart
    /\ ApodStart
    /\ BatchStart
SpecUtils == UtilsInit /\ [][UtilsNext]_vars

ZerofillInit ==
    /\ ZerofillAny
    /\ GroupStart
    /\ CliStart
    /\ SaveStart
    /\ HeaderStart
    /\ UtilsStart
    /\ ConvertStart
    /\ TransposeStart
    /\ GuiStart
    /\ SpectrumStart
    /\ DefsStart
    /\ ParseStart
    /\ FtStart
    /\ ApodStart
    /\ BatchStart
SpecZerofill == ZerofillInit /\ [][ZerofillNext]_vars

ConvertInit ==
    /\ ConvertAny
    /\ GroupStart
    /\ CliStart
    /\ SaveStart
    /\ HeaderStart
    /\ UtilsStart
    /\ ZerofillStart
    /\ TransposeStart
    /\ GuiStart
    /\ SpectrumStart
    /\ DefsStart
    /\ ParseStart
    /\ FtStart
    /\ ApodStart
    /\ BatchStart
SpecConvert == ConvertInit /\ [][ConvertNext]_vars

TransposeInit ==
    /\ TransposeAny
    /\ GroupStart
    /\ CliStart
    /\ SaveStart
    /\ HeaderStart
    /\ UtilsStart
    /\ ZerofillStart
    /\ ConvertStart
    /\ GuiStart
    /\ SpectrumStart
    /\ DefsStart
    /\ ParseStart
    /\ FtStart
    /\ ApodStart
    /\ BatchStart
SpecTranspose == TransposeInit /\ [][TransposeNext]_vars

GuiInit ==
    /\ GuiStart
    /\ GroupStart
    /\ CliStart
    /\ SaveStart
    /\ HeaderStart
    /\ UtilsStart
    /\ ZerofillStart
    /\ ConvertStart
    /\ TransposeStart
    /\ SpectrumStart
    /\ DefsStart
    /\ ParseStart
    /\ FtStart
    /\ ApodStart
    /\ BatchStart
SpecGui == GuiInit /\ [][GuiNext]_vars

SpectrumInit ==
    /\ SpectrumAny
    /\ GroupStart
    /\ CliStart
    /\ SaveStart
    /\ HeaderStart
    /\ UtilsStart
    /\ ZerofillStart
    /\ ConvertStart
    /\ TransposeStart
    /\ GuiStart
    /\ DefsStart
    /\ ParseStart
    /\ FtStart
    /\ ApodStart
    /\ BatchStart
SpecSpectrum == SpectrumInit /\ [][SpectrumNext]_vars

DefsInit ==
    /\ DefsStart
    /\ GroupStart
    /\ CliStart
    /\ SaveStart
    /\ HeaderStart
    /\ UtilsStart
    /\ ZerofillStart
    /\ ConvertStart
    /\ TransposeStart
    /\ GuiStart
    /\ SpectrumStart
    /\ ParseStart
    /\ FtStart
    /\ ApodStart
    /\ BatchStart
SpecDefs == DefsInit /\ [][DefsNext]_vars

ParseInit ==
    /\ ParseAny
    /\ GroupStart
    /\ CliStart
    /\ SaveStart
    /\ HeaderStart
    /\ UtilsStart
    /\ ZerofillStart
    /\ ConvertStart
    /\ TransposeStart
    /\ GuiStart
    /\ SpectrumStart
    /\ DefsStart
    /\ FtStart
    /\ ApodStart
    /\ BatchStart
SpecParse == ParseInit /\ [][ParseNext]_vars

FtInit ==
    /\ FtAny
    /\ GroupStart
    /\ CliStart
    /\ SaveStart
    /\ HeaderStart
    /\ UtilsStart
    /\ ZerofillStart
    /\ ConvertStart
    /\ TransposeStart
    /\ GuiStart
    /\ SpectrumStart
    /\ DefsStart
    /\ ParseStart
    /\ ApodStart
    /\ BatchStart
SpecFt == FtInit /\ [][FtNext]_vars

ApodInit ==
    /\ ApodAny
    /\ GroupStart
    /\ CliStart
    /\ SaveStart
    /\ HeaderStart
    /\ UtilsStart
    /\ ZerofillStart
    /\ ConvertStart
    /\ TransposeStart
    /\ GuiStart
    /\ SpectrumStart
    /\ DefsStart
    /\ ParseStart
    /\ FtStart
    /\ BatchStart
SpecApod == ApodInit /\ [][ApodNext]_vars

BatchInit ==
    /\ BatchAny
    /\ GroupStart
    /\ CliStart
    /\ SaveStart
    /\ HeaderStart
    /\ UtilsStart
    /\ ZerofillStart
    /\ ConvertStart
    /\ TransposeStart
    /\ GuiStart
    /\ SpectrumStart
    /\ DefsStart
    /\ ParseStart
    /\ FtStart
    /\ ApodStart
SpecBatch == BatchInit /\ [][BatchNext]_vars

-----------------------------------------------------------------------------
(* Claims *)

\* A pipeline as the command line builds it: a LoadSpectra step first, and
\* only the FT mode the FTSpectra step implements
WellFormed(ps) ==
    /\ Len(ps) > 0
    /\ ps[1] = LoadStep
    /\ \A i \in 1..Len(ps) : ps[i].cls = "FTSpectra" => ps[i].mode = "auto"

\* C1: once NMRGroupProcessor.process is over, the steps it ran are exactly
\* the appended steps, each once and in append order (none skipped)
C1_RunsEveryStepInOrder ==
    (pc \in {"returned", "raised"} /\ WellFormed(processors))
        => ran = processors

\* C2: process returns, and what it returns is a mapping holding 'spectra',
\* also with a step after SaveSpectra and with SaveSpectra last
C2_ReturnsSpectraMapping ==
    (pc \in {"returned", "raised"} /\ WellFormed(processors))
        => (pc = "returned" /\ ~kwargs.none /\ kwargs.has)

\* A command that was given neither -out nor --show-header
Passing(c) == ~c.out /\ ~c.hdr

\* C3: a command of a pipe that is given neither -out nor --show-header does
\* no file work: -in emits a pickled group of one LoadSpectra step that has
\* not run, a -fn leaf emits the group it read with at most one step appended,
\* and no file exists before a command with -out has run
C3_NoFileWorkBeforeOut ==
    /\ \A i \in 1..Len(chain) :
         Passing(chain[i]) =>
            /\ chain[i].io = <<>>
            /\ chain[i].executed = <<>>
            /\ chain[i].name = "-in" => chain[i].emitted = Pickled(<<LoadStep>>)
            /\ chain[i].name = "-fn" =>
                  \/ chain[i].emitted = NoData
                  \/ /\ chain[i].read.kind = "pickle"
                     /\ chain[i].emitted.kind = "pickle"
                     /\ \/ chain[i].emitted.group = chain[i].read.group
                        \/ \E st \in Steps : chain[i].emitted.group =
                                               Append(chain[i].read.group, st)
    /\ (\A i \in 1..Len(chain) : ~chain[i].out) => files = {}

\* C3 witness: -in, then -fn FT, then -fn FT -out: the first two commands did
\* no file work and the third atload, transformed twice and wrote
C3_Witness ==
    /\ Len(chain) = 3
    /\ chain[1].name = "-in" /\ Passing(chain[1])
    /\ chain[2].leaf = "FT" /\ Passing(chain[2])
    /\ chain[2].emitted = Pickled(<<LoadStep, FTStep("auto")>>)
    /\ chain[3].out /\ chain[3].exit = 0
    /\ chain[3].io = <<"load", "transform", "transform", "write">>
    /\ OutPath \in files

\* The leaves the command line is said to offer
C4Leaves == {"EM", "EXT", "FT", "PS", "SP", "TP", "ZF"}

\* C4: every leaf F of C4Leaves run with -out on what `-in` emitted exits 0,
\* has processed LoadSpectra, F's step and SaveSpectra, and leaves the file
C4_EveryLeafWritesFile ==
    \A i \in 2..Len(chain) :
        ( /\ chain[i-1].name = "-in" /\ Passing(chain[i-1])
          /\ chain[i].name = "-fn" /\ chain[i].leaf \in C4Leaves
          /\ chain[i].mode \in {"-", "auto"}
          /\ chain[i].out )
        => /\ chain[i].exit = 0
           /\ Len(chain[i].executed) = 3
           /\ chain[i].executed[1] = LoadStep
           /\ chain[i].executed[3] = SaveStep
           /\ OutPath \in files

\* C5: a save with overwrite=False succeeds and writes the spectrum when no
\* file is at the path, and when an earlier save already wrote the path it
\* raises FileExistsError and leaves the file as it was
C5_SaveOverwriteGuard ==
    \A j \in 1..Len(saves) :
        ~saves[j].overwrite =>
            /\ saves[j].before = NoFile =>
                  saves[j].raised = "" /\ saves[j].after = saves[j].data
            /\ (\E i \in 1..(j-1) : saves[i].path = saves[j].path
                                      /\ saves[i].raised = "") =>
                  /\ saves[j].raised = "FileExistsError"
                  /\ saves[j].after = saves[j].before

\* C5 witness: a first save with overwrite=False succeeded, the spectrum was
\* modified, and a second save to the same path with overwrite=False raised
C5_Witness ==
    /\ Len(saves) = 2
    /\ saves[1].path = saves[2].path
    /\ ~saves[1].overwrite /\ saves[1].raised = ""
    /\ ~saves[2].overwrite /\ saves[2].raised = "FileExistsError"
    /\ saves[2].data # saves[1].data
    /\ disk[saves[2].path] = saves[1].data

\* C6: a header mapping that is saved and loaded again has the same keys and,
\* for every key, an equal value, numeric and text fields alike
C6_HeaderRoundTrip ==
    hpc = "reloaded" =>
        \A k \in FieldNames :
            /\ (meta[k] = Absent) <=> (remeta[k] = Absent)
            /\ meta[k] # Absent => PyEq(meta[k], remeta[k])

\* A header whose text fields hold text and whose named numeric slots hold
\* no NaN
Readable(h) ==
    \A k \in FieldNames :
        IF IsTextKey(k)
        THEN Decodable(FieldWords(h, field_locations[k], TextSize(k)))
        ELSE h[field_locations[k]] # NaN

\* C6 (amended): for a readable header the mapping that is saved and loaded
\* again has the same keys and an equal value for every key
C6_ReadableHeaderRoundTrip ==
    (hpc = "reloaded" /\ Readable(header)) =>
        \A k \in FieldNames :
            /\ (meta[k] = Absent) <=> (remeta[k] = Absent)
            /\ meta[k] # Absent => PyEq(meta[k], remeta[k])

\* C6 witness: a readable header with a null-led label, a binary number and
\* a NaN in an unnamed slot has made the round trip through a different block
C6_Witness ==
    /\ hpc = "reloaded"
    /\ Readable(header)
    /\ header[1] = Binary /\ header[2] = Null /\ header[3] = Ascii
    /\ header[5] = NaN
    /\ meta["FDF2LABEL"] = Str(<<Ascii>>)
    /\ remeta["FDF2LABEL"] = Str(<<Ascii>>)
    /\ rewritten # header

\* C7: for a real tensor of any rank with an even last axis, splitting to
\* complex and combining with the same layout gives the tensor back, with
\* the same size and the same element at every index
C7_InterleaveInverse ==
    (Len(ops) = 2 /\ ops[1] = ops[2]) => combined = tensor

\* The last zerofill call
LastFill == zcalls[Len(zcalls)]

\* C9: zerofill(pad=k) with k > 0 makes the last axis k points longer, keeps
\* every earlier value at its index, sets every added point to zero and
\* leaves the other axes' lengths alone
C9_ZerofillPadGrowth ==
    (zcalls # <<>> /\ LastFill.size = None /\ LastFill.pad # None
                  /\ LastFill.pad[1] > 0) =>
        LET d == Len(zbefore.size) IN
        /\ LastFill.raised = ""
        /\ zdata.size =
              Resize(zbefore.size, d, zbefore.size[d] + LastFill.pad[1])
        /\ \A ix \in Indices(zdata.size) :
              zdata.at[ix] = IF ix[d] <= zbefore.size[d]
                             THEN zbefore.at[ix] ELSE 0

\* C9 witness: zerofill(pad=2) on data of size (2, 3) gave size (2, 5)
C9_Witness ==
    /\ zcalls # <<>> /\ LastFill.size = None /\ LastFill.pad = Some(2)
    /\ zbefore.size = <<2, 3>>
    /\ zdata.size = <<2, 5>>
    /\ zdata.at[<<2, 3>>] = 6 /\ zdata.at[<<2, 4>>] = 0

\* The points whose round trip is claimed
C10Points == {0, 1, axis.npts - 1}

\* C10: on a frequency-domain axis, converting point 0, 1 or npts-1 to Hz or
\* ppm and back raises nothing and returns the point
C10_ConvertRoundTrip ==
    ( /\ there # NoCall
      /\ axis.domain_type = "FREQ"
      /\ there.unit_from = "POINTS" /\ there.unit_to \in {"HZ", "PPM"}
      /\ \E p \in C10Points : there.value = Num(p) )
    => /\ there.raised = ""
       /\ back # NoCall => back.raised = "" /\ back.result = there.value

\* C8: transpose(dim0, dim1) called twice on a spectrum of 2 to 4 dimensions
\* raises nothing and restores order, tensor size, spectral widths and labels
C8_TransposeTwiceRestores ==
    (tcalls # <<>> /\ \A i \in 1..Len(tcalls) : tcalls[i] = tcalls[1]) =>
        /\ traised = ""
        /\ Len(tcalls) = 2 =>
              Snapshot(tmeta, tdata) = atload

\* A request whose unit does not fit the domain of the last axis
C11Mismatch ==
    \/ /\ axis.domain_type = "FREQ"
       /\ "SEC" \in {there.unit_from, there.unit_to}
    \/ /\ axis.domain_type = "TIME"
       /\ {there.unit_from, there.unit_to} \cap {"HZ", "PPM"} # {}

\* A request the domain check has to let through
C11Compatible ==
    \/ /\ axis.domain_type = "TIME"
       /\ there.unit_from = "POINTS" /\ there.unit_to = "SEC"
    \/ /\ axis.domain_type = "FREQ"
       /\ there.unit_from = "POINTS" /\ there.unit_to \in {"HZ", "PPM"}

\* C11: convert raises ValueError for SEC on a frequency-domain axis and for
\* HZ or PPM on a time-domain axis, and the domain check raises nothing for
\* POINTS to SEC on a time-domain axis or POINTS to HZ or PPM on a
\* frequency-domain axis
C11_ConvertRejectsMismatch ==
    there # NoCall =>
        /\ C11Mismatch => there.raised = "ValueError"
        /\ C11Compatible => there.raised \in {"", "AssertionError"}

\* C12: the selector holds as many entries as the stack has plot widgets and
\* its current index is the stack's current index, after any sequence of
\* addSpectrum calls, page switches and selector activations
C12_SelectorMirrorsStack ==
    /\ Len(plotSelector.items) = Len(plotStack.widgets)
    /\ plotSelector.index = plotStack.index

\* The last call made on the window
LastGuiCall == gcalls[Len(gcalls)]

\* C17: addSpectrum or fileOpenDialog given a path that does not exist shows
\* the file-not-found dialog for that name and raises nothing
C17_MissingFileShowsDialog ==
    ( /\ gcalls # <<>>
      /\ LastGuiCall.op \in {"addSpectrum", "fileOpenDialog"}
      /\ LastGuiCall.arg # "" /\ FileNdims(LastGuiCall.arg) = 0 )
    => /\ LastGuiCall.raised = ""
       /\ dialogs # <<>> /\ dialogs[Len(dialogs)] = LastGuiCall.arg

\* C18: the spectra list and the plot stack have the same length and the
\* i-th plot widget displays the i-th spectrum, whether the addSpectrum
\* calls succeeded or failed part-way
C18_OneWidgetPerSpectrum ==
    /\ Len(window_spectra) = Len(plotStack.widgets)
    /\ \A i \in 1..Len(plotStack.widgets) :
          i <= Len(window_spectra) =>
              plotStack.widgets[i].spectra = <<window_spectra[i]>>

C14_FDSIZEIsLastAxis ==
    smeta.FDSIZE = sdata.size[Len(sdata.size)]

\* The layout a data type has at an axis, the last one or another
C20Layout(dt, last) ==
    IF dt \in {"REAL", "IMAG"} THEN "CONTIGUOUS"
    ELSE IF last THEN "BLOCK_INTERLEAVE"
    ELSE "SINGLE_INTERLEAVE"

\* C20: data_layout(dim) gives the layout of the axis's current data type and
\* data_layout(dim, data_type=T) the layout T has at that axis: CONTIGUOUS
\* for REAL or IMAG, BLOCK_INTERLEAVE for COMPLEX on the last axis,
\* SINGLE_INTERLEAVE for COMPLEX on any other axis
C20_DataLayoutOfGivenType ==
    queried # NoQuery =>
        queried.result =
            C20Layout(IF queried.data_type = None THEN queried.current
                      ELSE queried.data_type[1], queried.last)

\* The order with the entries at the in-memory positions dim0 and dim1
\* exchanged
C19Swapped(q, dim0, dim1) ==
    [q EXCEPT ![dim0 + 1] = q[dim1 + 1], ![dim1 + 1] = q[dim0 + 1]]

\* C19: after transpose(dim0, dim1) on a spectrum of 2 to 4 dimensions,
\* order is the previous order with the entries at positions dim0 and dim1
\* exchanged and every other entry unchanged
C19_OrderFollowsSwappedAxes ==
    (Len(tcalls) = 1 /\ traised = "") =>
        order(tmeta) = C19Swapped(atload.order, tcalls[1][1], tcalls[1][2])

\* C15: under any interleaving of concurrent calls, the field_locations a
\* call returned holds every entry of the catalog, at its return and ever
\* after
C15_ReturnedCatalogComplete ==
    \A t \in Threads :
        tpc[t] = "done" =>
            heap[handed[t]] = {Catalog[i] : i \in 1..Len(Catalog)}

\* C16: for a header of 1, 2 or 3 dimensions parse_nmrpipe_meta returns pts
\* and data_pts with one entry per dimension, data_pts[i] = 2 * pts[i] on a
\* COMPLEX axis and data_pts[i] = pts[i] on a REAL axis
C16_PtsPerDimension ==
    (parsed # NotParsed /\ pmeta.FDDIMCOUNT \in 1..3) =>
        /\ parsed.raised = ""
        /\ Len(parsed.pts) = pmeta.FDDIMCOUNT
        /\ Len(parsed.data_pts) = pmeta.FDDIMCOUNT
        /\ \A i \in 1..pmeta.FDDIMCOUNT :
              i <= Len(parsed.pts) /\ i <= Len(parsed.data_pts) =>
                  parsed.data_pts[i] =
                      IF parsed.data_type[i] = "COMPLEX"
                      THEN 2 * parsed.pts[i] ELSE parsed.pts[i]

\* The channel bound to the last axis, and the other member of a domain pair
LastChannel(m) == order(m)[ndims(m)]
OtherDomain(d) == IF d = "TIME" THEN "FREQ" ELSE "TIME"

\* C21: after phase(p0, p1) the fields FDF{n}P0 and FDF{n}P1 of the channel n
\* of the last axis hold p0 and p1, and when discard_imaginaries is true and
\* the axis was COMPLEX, FDF{n}QUADFLAG holds the REAL code
C21_PhaseWritesHeader ==
    (flast.op = "phase" /\ flast.raised = "") =>
        LET n == LastChannel(fmeta)
            was == data_type(flast.before, ndims(flast.before) - 1)
        IN  /\ fmeta.FDFP0[n] = flast.p0
            /\ fmeta.FDFP1[n] = flast.p1
            /\ (flast.flag /\ was = "COMPLEX") => fmeta.FDFQUADFLAG[n] = "REAL"

\* C22: ft(auto=True) changes the domain flag of the last axis, TIME to FREQ
\* and FREQ to TIME, and leaves the domain flag of every other axis
C22_AutoFtFlipsDomain ==
    (flast.op = "ft" /\ flast.flag /\ flast.raised = "") =>
        LET last == ndims(fmeta) - 1
        IN  /\ domain_type(fmeta, last) =
                   OtherDomain(domain_type(flast.before, last))
            /\ \A dim \in 0..(last - 1) :
                  domain_type(fmeta, dim) = domain_type(flast.before, dim)

\* Whether FDDMXFLAG is absent or rounds to one of the given codes
DmxRoundsTo(m, codes) ==
    IF m.FDDMXFLAG = None THEN -1 \in codes
    ELSE Round(m.FDDMXFLAG[1]) \in codes

C24_DigitalFilterCorrectedOnce ==
    /\ (flast.op = "ft" /\ correct_digital_filter(flast.before)) =>
           /\ flast.raised = ""
           /\ ~correct_digital_filter(fmeta)
    /\ fdata.rolls <= 1
    /\ fdata.corrections <= 1

\* C25: apodization_exp(lb, start=s, size=n) with s >= 0 and s + n <= npts
\* does not raise, and leaves every point of the last axis whose index is
\* outside [s, s + n) as it was before the call
C25_OutsideWindowUnscaled ==
    (acount > 0 /\ alast.size # None) =>
        /\ alast.raised = ""
        /\ \A i \in 1..apod.npts :
              (i <= alast.start \/ i > alast.start + alast.size[1]) =>
                  ascale[i] = alast.before[i]

\* The text fields of the header whose bytes do not decode
Undecodable(h) ==
    {k \in FieldNames :
        /\ IsTextKey(k)
        /\ ~Decodable(FieldWords(h, field_locations[k], TextSize(k)))}

\* C26: when the bytes of a text field cannot be decoded, load_nmrpipe_meta
\* still returns the mapping of the rest of the header, and the mapping has no
\* entry under the key of the failed field, neither a string nor a float
C26_UndecodableTextOmitted ==
    hpc # "file" =>
        \A k \in FieldNames :
            IF k \in Undecodable(header) THEN meta[k] = Absent
            ELSE IF IsTextKey(k) THEN meta[k].t = "str"
            ELSE fields_by_location(field_locations[k]) = k =>
                     meta[k] = Float(header[field_locations[k]])

\* C27: for any list of spectra and any list of output paths (as many, fewer
\* or more), SaveSpectra.process calls save once on each spectrum, with the
\* path at the same position when there is one and no path otherwise, and
\* completes without error
C27_SavesEachSpectrumOnce ==
    (bpc = "done" /\ batch.overwrite) =>
        /\ braised = ""
        /\ bsaved = [i \in 1..Len(batch.spectra) |->
                        [spectrum |-> batch.spectra[i],
                         out_filepath |->
                             IF i <= Len(batch.out_filepaths)
                             THEN batch.out_filepaths[i] ELSE NoPath]]

\* C28: for each of the modes 'auto', 'real' and 'inv', FTSpectra.process
\* called with a list of spectra transforms every spectrum of the list and
\* returns the mapping with 'spectra' set: no mode makes the step raise
C28_EveryFTModeTransforms ==
    /\ (pc = "raised" /\ processors[idx].cls = "FTSpectra") =>
           (kwargs.none \/ ~kwargs.has)
    /\ (/\ pc = "run"
        /\ idx <= Len(processors)
        /\ processors[idx].cls = "FTSpectra"
        /\ ~kwargs.none
        /\ kwargs.has) =>
           LET o == StepProcess(processors[idx], kwargs)
           IN  /\ o.exc = ""
               /\ o.ret.has
               /\ o.ret.spectra = [i \in 1..Len(kwargs.spectra) |->
                      [kwargs.spectra[i] EXCEPT !.nft = @ + 1]]

\* C29: after any sequence of mouse-mode selections (NAVIGATION, ADDPEAKS)
\* and spectrum openings, the interaction state of every plot widget's view
\* box is the window's current mouse mode, so that the drag-to-zoom gesture
\* is swallowed in a widget exactly when the window is in the add-peaks mode
C29_ViewBoxFollowsMouseMode ==
    \A i \in 1..Len(plotStack.widgets) :
        /\ getMouseInteraction(plotStack.widgets[i].viewBox)
               = currentMouseMode
        /\ ~showAxRect(plotStack.widgets[i].viewBox)
               <=> currentMouseMode = "ADDPEAKS"

\* A list that holds every channel 1..4 once
IsChannelPermutation(q) ==
    /\ Len(q) = 4
    /\ {q[i] : i \in 1..4} = Channels

\* A list that holds no entry twice
NoRepeats(q) == \A i, j \in 1..Len(q) : q[i] = q[j] => i = j

\* C30: when FDDIMORDER1..4 held a permutation of the channels 1..4 after
\* loading, they hold a permutation of the channels after any sequence of
\* transpose calls with valid axis pairs, and order holds no channel twice
C30_DimOrderStaysPermutation ==
    /\ IsChannelPermutation(tmeta.FDDIMORDER)
    /\ NoRepeats(order(tmeta))
    /\ Len(order(tmeta)) = ndims(tmeta)

\* C30 witness: a 3D spectrum after two transposes that raised nothing, its
\* order no longer the one it was loaded with
C30_Witness ==
    /\ ndims(tmeta) = 3
    /\ Len(tcalls) >= 2 /\ traised = ""
    /\ tcalls[1] # tcalls[2]
    /\ order(tmeta) # atload.order
    /\ IsChannelPermutation(tmeta.FDDIMORDER)

====
